---- MODULE Spec2Model ----
(***************************************************************************)
(* The /api/generate-quote request handler of attradeprice/trade-price-tool *)
(* and the helpers it is built from.  The repository holds several         *)
(* versions of the handler; `variant' names the one that serves a request. *)
(*                                                                         *)
(* Strings are sequences of one-character strings, so that the regular     *)
(* expressions of cleanTitle, trim, split and the bigram similarity of the *)
(* string-similarity package are computed character by character.          *)
(***************************************************************************)
EXTENDS Integers, Sequences, FiniteSets, TLC

\* ------------------------------------------------------------------ bounds
\* Longest materials array a plan reply carries.
MaxMaterials == 2
\* Longest raw plan reply (in characters of the brace alphabet).
MaxRaw == 3
\* Longest keyword list handed to the per-keyword catalog search.
MaxKeywords == 2
\* The longest product title handed to cleanTitle on its own.
MaxTitle == 4
\* The most words a description or a keyword reply is made of.
MaxTokens == 2
\* The last millisecond of the clock.
MaxClock == 3
\* The most 200 responses whose quote numbers are kept.
MaxResponses == 3
\* The most runs of handleGenerateQuote on one page.
MaxRuns == 3

\* --------------------------------------------------------------- characters
Digits == {"0", "1", "2", "3", "4", "5", "6", "7", "8", "9"}
\* \s of a JavaScript regular expression (the ASCII part).
Spaces == {" ", "\t", "\n"}
UpperCase == <<"A","B","C","D","E","F","G","H","I","J","K","L","M",
               "N","O","P","Q","R","S","T","U","V","W","X","Y","Z">>
LowerCase == <<"a","b","c","d","e","f","g","h","i","j","k","l","m",
               "n","o","p","q","r","s","t","u","v","w","x","y","z">>

\* String.prototype.toLowerCase, one character.
LowerChar(c) ==
  IF \E i \in 1..26 : UpperCase[i] = c
  THEN LowerCase[CHOOSE i \in 1..26 : UpperCase[i] = c]
  ELSE c

\* String.prototype.toLowerCase.
ToLowerCase(s) == [i \in 1..Len(s) |-> LowerChar(s[i])]

\* Index just past the longest run of digits of s that starts at i (\d+, \d*).
RECURSIVE DigitsEnd(_, _)
DigitsEnd(s, i) ==
  IF i <= Len(s) /\ s[i] \in Digits THEN DigitsEnd(s, i + 1) ELSE i

\* Index just past the longest run of white space of s that starts at i (\s*).
RECURSIVE SpacesEnd(_, _)
SpacesEnd(s, i) ==
  IF i <= Len(s) /\ s[i] \in Spaces THEN SpacesEnd(s, i + 1) ELSE i

\* Index just past an optional white-space character at i (\s?).
OptSpaceEnd(s, i) == IF i <= Len(s) /\ s[i] \in Spaces THEN i + 1 ELSE i

\* Whether the literal lit occurs in s at i, ignoring case (the i flag).
MatchLit(s, i, lit) ==
  /\ i + Len(lit) - 1 <= Len(s)
  /\ \A k \in 1..Len(lit) : LowerChar(s[i + k - 1]) = lit[k]

\* Index just past the first literal of the alternation lits that occurs in s
\* at i, 0 when none does.
RECURSIVE AltEnd(_, _, _)
AltEnd(s, i, lits) ==
  IF lits = <<>> THEN 0
  ELSE IF MatchLit(s, i, Head(lits)) THEN i + Len(Head(lits))
  ELSE AltEnd(s, i, Tail(lits))

\* ---------------------------------------------------------------- cleanTitle
\* The first pattern of cleanTitle at i, its alternatives in their order:
\* index past the match, 0 when none matches.
\*   packOf     pack of\s*\d+
\*   dimension  \d+\s?(x)\s?\d+\s?(mm|cm|m)?
\*   measure    \d+(mm|cm|m|kg|ltr|sqm|m2); its last alternative, "m" followed
\*              by a superscript two, can never be chosen: "m" comes first.
SizeEnd(s, i) ==
  LET dimUnits == << <<"m","m">>, <<"c","m">>, <<"m">> >>
      measureUnits == << <<"m","m">>, <<"c","m">>, <<"m">>, <<"k","g">>,
                         <<"l","t","r">>, <<"s","q","m">> >>
      packOf ==
        IF MatchLit(s, i, <<"p","a","c","k"," ","o","f">>)
        THEN LET j == SpacesEnd(s, i + 7)
                 k == DigitsEnd(s, j)
             IN IF k > j THEN k ELSE 0
        ELSE 0
      dimension ==
        LET d1 == DigitsEnd(s, i)
            x  == OptSpaceEnd(s, d1)
        IN IF d1 > i /\ MatchLit(s, x, <<"x">>)
           THEN LET d2s == OptSpaceEnd(s, x + 1)
                    d2  == DigitsEnd(s, d2s)
                IN IF d2 > d2s
                   THEN LET u  == OptSpaceEnd(s, d2)
                            ue == AltEnd(s, u, dimUnits)
                        IN IF ue > 0 THEN ue ELSE u
                   ELSE 0
           ELSE 0
      measure ==
        LET d == DigitsEnd(s, i)
        IN IF d > i THEN AltEnd(s, d, measureUnits) ELSE 0
  IN IF packOf > 0 THEN packOf
     ELSE IF dimension > 0 THEN dimension
     ELSE IF measure > 0 THEN measure
     ELSE AltEnd(s, i, << <<"b","u","l","k">>, <<"s","i","n","g","l","e">>,
                          <<"e","a","c","h">> >>)

\* .replace(/(pack of...|...|bulk|single|each)/gi, '') from position i on.
RECURSIVE StripSizes(_, _)
StripSizes(s, i) ==
  IF i > Len(s) THEN <<>>
  ELSE IF SizeEnd(s, i) > 0 THEN StripSizes(s, SizeEnd(s, i))
  ELSE <<s[i]>> \o StripSizes(s, i + 1)

\* Index of the first ")" after i on the same line, 0 when there is none
\* (the lazy .*? of \(.*?\), where . matches no line break).
RECURSIVE CloseParen(_, _)
CloseParen(s, i) ==
  IF i > Len(s) \/ s[i] = "\n" THEN 0
  ELSE IF s[i] = ")" THEN i
  ELSE CloseParen(s, i + 1)

\* .replace(/\(.*?\)/g, '') from position i on.
RECURSIVE StripParens(_, _)
StripParens(s, i) ==
  IF i > Len(s) THEN <<>>
  ELSE IF s[i] = "(" /\ CloseParen(s, i + 1) > 0
       THEN StripParens(s, CloseParen(s, i + 1) + 1)
  ELSE <<s[i]>> \o StripParens(s, i + 1)

\* Index of the first line break at or after i, Len(s)+1 when there is none.
RECURSIVE LineEnd(_, _)
LineEnd(s, i) ==
  IF i > Len(s) \/ s[i] = "\n" THEN i ELSE LineEnd(s, i + 1)

\* .replace(/[-|]+.*/g, '') from position i on: a dash or bar and the rest of
\* its line.
RECURSIVE StripTrailing(_, _)
StripTrailing(s, i) ==
  IF i > Len(s) THEN <<>>
  ELSE IF s[i] \in {"-", "|"} THEN StripTrailing(s, LineEnd(s, i))
  ELSE <<s[i]>> \o StripTrailing(s, i + 1)

\* String.prototype.trim.
RECURSIVE Trim(_)
Trim(s) ==
  IF s = <<>> THEN s
  ELSE IF Head(s) \in Spaces THEN Trim(Tail(s))
  ELSE IF s[Len(s)] \in Spaces THEN Trim(SubSeq(s, 1, Len(s) - 1))
  ELSE s

\* cleanTitle of the two-call handlers.
cleanTitle(title) ==
  Trim(StripTrailing(StripParens(StripSizes(title, 1), 1), 1))

\* ------------------------------------------------------- string utilities
\* String.prototype.split(/\s+/) from position i on, cur being the piece
\* collected so far; SplitSpaces(s, 1, <<>>) splits the whole string.
RECURSIVE SplitSpaces(_, _, _)
SplitSpaces(s, i, cur) ==
  IF i > Len(s) THEN <<cur>>
  ELSE IF s[i] \in Spaces THEN <<cur>> \o SplitSpaces(s, SpacesEnd(s, i), <<>>)
  ELSE SplitSpaces(s, i + 1, Append(cur, s[i]))

\* String.prototype.replace(/\s+/g, r) from position i on;
\* ReplaceSpaces(s, 1, r) replaces in the whole string.
RECURSIVE ReplaceSpaces(_, _, _)
ReplaceSpaces(s, i, r) ==
  IF i > Len(s) THEN <<>>
  ELSE IF s[i] \in Spaces THEN r \o ReplaceSpaces(s, SpacesEnd(s, i), r)
  ELSE <<s[i]>> \o ReplaceSpaces(s, i + 1, r)

\* String.prototype.includes.
Includes(s, w) ==
  \E i \in 1..(Len(s) + 1) :
    i + Len(w) - 1 <= Len(s) /\ SubSeq(s, i, i + Len(w) - 1) = w

\* baseQuery.split(/\s+/).filter(w => w.length > 3)
LongWords(s) == LET long(w) == Len(w) > 3 IN SelectSeq(SplitSpaces(s, 1, <<>>), long)

\* /colour\b/i.test(name): "colour" not followed by a word character.
WordChars == {LowerCase[i] : i \in 1..26} \cup {UpperCase[i] : i \in 1..26}
               \cup Digits \cup {"_"}

\* ------------------------------------------- string-similarity (Dice bigrams)
\* A rating is a fraction <<numerator, denominator>>, denominator > 0.
RatingGeq(a, b) == a[1] * b[2] >= b[1] * a[2]
RatingGt(a, b) == a[1] * b[2] > b[1] * a[2]

\* seq without its first occurrence of e.
RECURSIVE RemoveOne(_, _)
RemoveOne(seq, e) ==
  IF seq = <<>> THEN <<>>
  ELSE IF Head(seq) = e THEN Tail(seq)
  ELSE <<Head(seq)>> \o RemoveOne(Tail(seq), e)

\* The number of bigrams of `second' that find a still unused equal bigram in
\* `first' (the bag of the first string's bigrams, decremented on each hit).
RECURSIVE IntersectionSize(_, _)
IntersectionSize(first, second) ==
  IF second = <<>> THEN 0
  ELSE IF \E i \in 1..Len(first) : first[i] = Head(second)
       THEN 1 + IntersectionSize(RemoveOne(first, Head(second)), Tail(second))
  ELSE IntersectionSize(first, Tail(second))

\* stringSimilarity.compareTwoStrings.
compareTwoStrings(a, b) ==
  LET first  == ReplaceSpaces(a, 1, <<>>)
      second == ReplaceSpaces(b, 1, <<>>)
      bigrams(s) == [i \in 1..(Len(s) - 1) |-> <<s[i], s[i + 1]>>]
  IN IF first = second THEN <<1, 1>>
     ELSE IF Len(first) < 2 \/ Len(second) < 2 THEN <<0, 1>>
     ELSE << 2 * IntersectionSize(bigrams(first), bigrams(second)),
             Len(first) + Len(second) - 2 >>

\* stringSimilarity.findBestMatch rejects an empty list of targets with
\* Error('Bad arguments: ...').
findBestMatchThrows(targets) == targets = <<>>

\* Array.prototype.sort((a, b) => b.score - a.score): the greater score
\* first; the sort is stable, equal scores keep their order.
RECURSIVE InsertByScore(_, _)
InsertByScore(sorted, e) ==
  IF sorted = <<>> THEN <<e>>
  ELSE IF RatingGt(e.score, Head(sorted).score) THEN <<e>> \o sorted
  ELSE <<Head(sorted)>> \o InsertByScore(Tail(sorted), e)

RECURSIVE SortByScoreDesc(_)
SortByScoreDesc(seq) ==
  IF seq = <<>> THEN <<>>
  ELSE InsertByScore(SortByScoreDesc(SubSeq(seq, 1, Len(seq) - 1)), seq[Len(seq)])

\* ---------------------------------------------------------- JavaScript values
Undefined == [k |-> "undefined"]
NaN == [k |-> "nan"]
Num(n) == [k |-> "num", v |-> n]
\* A string value; Str(<<>>) is ''.
Str(chars) == [k |-> "str", s |-> chars]

\* Number(v): a number is itself; undefined, an object and a string that is
\* no numeral are NaN; '' is 0.
JsNumber(v) ==
  IF v.k = "num" THEN v
  ELSE IF v.k = "str" /\ v.s = <<>> THEN Num(0)
  ELSE NaN

\* Whether v is truthy.
Truthy(v) ==
  \/ v.k = "num" /\ v.v # 0
  \/ v.k = "str" /\ v.s # <<>>
  \/ v.k \in {"obj", "array"}

\* a || b
JsOr(a, b) == IF Truthy(a) THEN a ELSE b

\* a * b: NaN unless both operands convert to numbers.
JsMul(a, b) ==
  IF JsNumber(a).k = "num" /\ JsNumber(b).k = "num"
  THEN Num(JsNumber(a).v * JsNumber(b).v)
  ELSE NaN

\* a === b for numbers as a client reads them: NaN equals nothing.
JsNumEq(a, b) == a.k = "num" /\ b.k = "num" /\ a.v = b.v

\* ------------------------------------------------------------------ inputs
\* Products the catalog service can return.  The first two are size variants
\* of one product (one cleaned title), the fourth is a colour variant, the
\* sixth has no description.
Catalog ==
  << [id |-> <<"1">>, url |-> <<"u", "1">>, name |-> <<"S","a","n","d">>,
      hasDescription |-> TRUE],
     [id |-> <<"2">>, url |-> <<"u", "2">>,
      name |-> <<"s","a","n","d"," ","2","5","k","g">>, hasDescription |-> TRUE],
     [id |-> <<"3">>, url |-> <<"u", "3">>,
      name |-> <<"g","r","i","t"," ","s","a","n","d">>, hasDescription |-> TRUE],
     [id |-> <<"4">>, url |-> <<"u", "4">>,
      name |-> <<"s","a","n","d"," ","c","o","l","o","u","r">>,
      hasDescription |-> TRUE],
     [id |-> <<"5">>, url |-> <<"u", "5">>,
      name |-> <<"s","l","a","b"," ","(","g","r","e","y",")">>,
      hasDescription |-> TRUE],
     [id |-> <<"6">>, url |-> <<"u", "6">>, name |-> <<"g","r","i","t">>,
      hasDescription |-> FALSE],
     [id |-> <<"7">>, url |-> <<"u", "7">>, name |-> <<"g","r","a","v","e","l">>,
      hasDescription |-> TRUE] >>
CatalogProducts == {Catalog[i] : i \in 1..Len(Catalog)}

\* What one fetch of the catalog's search endpoint can come to: the request
\* fails, the status is not 2xx, the body is no JSON, or a product array.
FetchOutcomes ==
  LET p == Catalog
  IN { [http |-> "neterr", products |-> <<>>],
       [http |-> "500", products |-> <<>>],
       [http |-> "badjson", products |-> <<>>] }
     \cup { [http |-> "ok", products |-> l] :
              l \in { <<>>, <<p[1]>>, <<p[4]>>, <<p[5]>>, <<p[1], p[2]>>, <<p[3], p[1]>>,
                      <<p[5], p[3], p[2], p[1]>>, <<p[1], p[3], p[5], p[6]>>,
                      <<p[1], p[2], p[5], p[7]>> } }

\* Material requirements a plan can list.
MaterialPool ==
  { [name |-> Str(<<"s","a","n","d">>), item |-> Undefined, quantity |-> Num(2)],
    [name |-> Str(<<"g","r","i","t"," ","s","a","n","d">>), item |-> Undefined, quantity |-> Num(-1)],
    [name |-> Str(<<" ">>), item |-> Undefined, quantity |-> Num(1)],
    [name |-> Undefined, item |-> Undefined, quantity |-> Undefined] }

\* All sequences over S of length at most n.
RECURSIVE SeqsUpTo(_, _)
SeqsUpTo(S, n) ==
  IF n = 0 THEN {<<>>}
  ELSE LET shorter == SeqsUpTo(S, n - 1)
       IN shorter \cup {Append(q, e) : q \in shorter, e \in S}

\* The values of plan.method.
MethodFull == [k |-> "obj", steps |-> TRUE, considerations |-> TRUE]

\* The values of plan.method and plan.customerQuote that come together.
PlanShells ==
  { [method |-> MethodFull,
     customerQuote |-> [k |-> "obj", labourHours |-> Num(2), labourRate |-> Num(40)]],
    [method |-> Undefined, customerQuote |-> Undefined],
    [method |-> [k |-> "obj", steps |-> FALSE, considerations |-> FALSE],
     customerQuote |-> [k |-> "obj", labourHours |-> Undefined, labourRate |-> Undefined]],
    [method |-> MethodFull,
     customerQuote |-> [k |-> "obj", labourHours |-> Str(<<"x">>), labourRate |-> Num(0)]],
    [method |-> MethodFull,
     customerQuote |-> [k |-> "obj", labourHours |-> Num(0), labourRate |-> Undefined]] }

\* The JSON objects a plan reply can hold; plan.materials is missing, no array,
\* or an array.
PlanObjects ==
  LET materialsValues ==
        {Undefined, [k |-> "obj"]}
        \cup {[k |-> "array", items |-> l] :
                l \in SeqsUpTo(MaterialPool, MaxMaterials)}
  IN { [materials |-> m, method |-> sh.method, customerQuote |-> sh.customerQuote] :
         m \in materialsValues, sh \in PlanShells }

\* JSON.parse of a reply that holds a number: every property of it is
\* undefined.
PlanOfNumber ==
  [materials |-> Undefined, method |-> Undefined, customerQuote |-> Undefined]

\* ------------------------------------------------------- plan reply parsing
\* The characters a raw plan reply is made of: braces, a digit, other text.
RawReplies == SeqsUpTo({"{", "}", "1", "x"}, MaxRaw)

\* raw.indexOf(c) as a 0-based index, -1 when c does not occur.
IndexOf(raw, c) ==
  IF \E i \in 1..Len(raw) : raw[i] = c
  THEN (CHOOSE i \in 1..Len(raw) : raw[i] = c /\ \A j \in 1..(i - 1) : raw[j] # c) - 1
  ELSE -1

\* raw.lastIndexOf(c) as a 0-based index, -1 when c does not occur.
LastIndexOf(raw, c) ==
  IF \E i \in 1..Len(raw) : raw[i] = c
  THEN (CHOOSE i \in 1..Len(raw) :
          raw[i] = c /\ \A j \in (i + 1)..Len(raw) : raw[j] # c) - 1
  ELSE -1

Max(a, b) == IF a >= b THEN a ELSE b
Min(a, b) == IF a <= b THEN a ELSE b

\* raw.substring(a, b) with 0-based indices: each index is clamped to
\* 0..length and the two are swapped when a > b.

\* Whether text is a JSON object over the alphabet: "{", then objects (the
\* values of its members), then the matching "}".
RECURSIVE IsObjectList(_)
IsObjectText(text) ==
  /\ Len(text) >= 2
  /\ text[1] = "{"
  /\ text[Len(text)] = "}"
  /\ IsObjectList(SubSeq(text, 2, Len(text) - 1))
IsObjectList(text) ==
  \/ text = <<>>
  \/ \E i \in 2..Len(text) :
       /\ IsObjectText(SubSeq(text, 1, i))
       /\ IsObjectList(SubSeq(text, i + 1, Len(text)))

\* JSON.parse(text): "object", "number" (a numeral) or "error" (SyntaxError).
JsonParse(text) ==
  IF IsObjectText(text) THEN "object"
  ELSE IF text # <<>> /\ \A i \in 1..Len(text) : text[i] = "1" THEN "number"
  ELSE "error"

\* raw.substring(raw.indexOf('{'), raw.lastIndexOf('}') + 1)
BraceSubstring(raw) ==
  LET ca == Min(Max(IndexOf(raw, "{"), 0), Len(raw))
      cb == Min(Max(LastIndexOf(raw, "}") + 1, 0), Len(raw))
  IN SubSeq(raw, Min(ca, cb) + 1, Max(ca, cb))

\* ------------------------------------------------------------------- state
VARIABLES
  variant,        \* the version of the handler that is deployed
  pc,             \* where the handler stands: the await it is suspended at
  req,            \* the request: its method and what its body holds
  resp,           \* the response sent, status 0 before
  ai,             \* the text-generation call in progress
  rawKind,        \* which braces the raw plan reply held
  plan,           \* the parsed plan reply
  matIdx,         \* index of the material the loop is at
  products,       \* the products found for that material
  words,          \* the words of the query still to look up
  all,            \* the products the word-by-word lookups have found
  finalMaterials, \* the materials resolved so far
  aiCalled,       \* whether the text-generation service was called for this request
  catCalled,      \* whether the catalog was fetched for this request
  bodyRead,       \* whether req.body has been read
  only500,        \* whether every catalog fetch so far was answered HTTP 500
  classifyReply,  \* what the last disambiguation call of this request replied
  now,            \* Date.now(): the clock the quote numbers are read from
  issued,         \* the quoteNumber of every 200 response sent so far
  calc            \* a helper function applied on its own: its input and result

\* The state of one run of the handler.
handlerVars == <<variant, pc, req, resp, ai, rawKind, plan, matIdx, products,
                 words, all, finalMaterials, aiCalled, catCalled, bodyRead, only500,
                 classifyReply>>
\* What lives beside one run of the handler.
aside == <<now, issued, calc>>
vars == <<handlerVars, aside>>

\* The two-call handlers: project type, then plan, then a search per material.
TwoCall == {"part_018", "generate_quote_b", "part_008", "part_012"}
\* The two-call handlers that look the words of a query up one by one when
\* the query itself finds nothing.
WithWordFallback == {"part_018", "generate_quote_b", "part_008"}
\* The handlers that retry a 503 and fall back to a second model.
WithRetry == {"part_018"}
\* The catalog-first handlers: keywords, one search, one planning call.
CatalogFirst == {"generate_quote_a", "ProductDropdown", "part_009", "part_021",
                 "part_013", "part_014"}

NoQuote == [k |-> "none"]
NoAi == [purpose |-> "none", model |-> "primary", attempt |-> 0, delay |-> 0,
         waited |-> 0, calls |-> 0, failed |-> 0]

\* The bodies a request can carry: none at all, an object without
\* jobDescription, one with jobDescription '', one with a description, one
\* with a description that asks for natural stone.
Bodies == {"none", "noDescription", "emptyDescription", "description",
           "naturalStone"}
Methods == {"POST", "GET", "PUT"}

\* A handler that has not been invoked yet.
Idle ==
  /\ pc = "idle"
  /\ req = [method |-> "POST", body |-> "none"]
  /\ resp = [status |-> 0, kind |-> "none", hasError |-> FALSE,
             hasDetails |-> FALSE, message |-> "", quote |-> NoQuote]
  /\ ai = NoAi
  /\ rawKind = "unset"
  /\ plan = [materials |-> Undefined, method |-> Undefined,
             customerQuote |-> Undefined]
  /\ matIdx = 0
  /\ products = <<>>
  /\ words = <<>>
  /\ all = <<>>
  /\ finalMaterials = <<>>
  /\ aiCalled = FALSE
  /\ catCalled = FALSE
  /\ bodyRead = FALSE
  /\ only500 = TRUE
  /\ classifyReply = [kind |-> "none", ids |-> <<>>]

Init ==
  /\ variant \in TwoCall \cup CatalogFirst
  /\ Idle
  /\ now = 0
  /\ issued = <<>>
  /\ calc = [fn |-> "none"]

\* ---------------------------------------------------------------- responses
\* The handlers that answer 405 with a JSON object {error}; the others end
\* the response with a line of text.
JsonRejection == {"part_018", "generate_quote_b", "part_008", "part_012",
                  "generate_quote_a"}


\* The catch block: res.status(500).json({ error, details: err.message });
\* part_014 answers { error: error.message } alone.
ServerError(v, msg) ==
  [status |-> 500, kind |-> "json", hasError |-> TRUE, hasDetails |-> v # "part_014",
   message |-> msg, quote |-> NoQuote]

\* res.status(200).json(quote)
Ok(quote) ==
  [status |-> 200, kind |-> "json", hasError |-> FALSE, hasDetails |-> FALSE,
   message |-> "", quote |-> quote]

\* The handler answers and is done.
Respond(r) == resp' = r /\ pc' = "done"

\* ------------------------------------------------------------ handler entry
loopVars == <<matIdx, products, words, all, finalMaterials>>

\* req.method !== 'POST', negated, with the method check of a handler that
\* would let PUT through beside it.
MethodAllowedOrPut(m) == m \in {"POST", "PUT"}
MethodAllowed(m) == m = "POST"

\* !jobDescription for the bodies that are objects: true of a missing and of
\* an empty description; beside it the check jobDescription === undefined.
DescriptionUndefined(b) == b = "noDescription"
DescriptionMissing(b) == b \in {"noDescription", "emptyDescription"}

\* if (req.method !== 'POST') return res.status(405)...
RejectMethod ==
  /\ pc = "idle"
  /\ \E m \in Methods, b \in Bodies :
       /\ ~MethodAllowed(m)
       /\ req' = [method |-> m, body |-> b]
  /\ Respond([status |-> 405,
              kind |-> IF variant \in JsonRejection THEN "json" ELSE "text",
              hasError |-> variant \in JsonRejection, hasDetails |-> FALSE,
              message |-> "Method Not Allowed", quote |-> NoQuote])
  /\ UNCHANGED <<aside, variant, classifyReply, ai, rawKind, plan, loopVars, aiCalled, catCalled,
                 bodyRead, only500>>

\* const { jobDescription } = req.body with no body: a TypeError, caught.
RejectNoBody ==
  /\ pc = "idle"
  /\ \E m \in Methods :
       /\ MethodAllowed(m)
       /\ req' = [method |-> m, body |-> "none"]
  /\ bodyRead' = TRUE
  /\ Respond(ServerError(variant, "TypeError"))
  /\ UNCHANGED <<aside, variant, classifyReply, ai, rawKind, plan, loopVars, aiCalled, catCalled, only500>>

\* if (!jobDescription) return res.status(400)...
RejectDescription ==
  /\ pc = "idle"
  /\ \E m \in Methods, b \in Bodies \ {"none"} :
       /\ MethodAllowed(m)
       /\ DescriptionMissing(b)
       /\ req' = [method |-> m, body |-> b]
  /\ bodyRead' = TRUE
  /\ Respond([status |-> 400, kind |-> "json", hasError |-> TRUE,
              hasDetails |-> FALSE, message |-> "Missing job description",
              quote |-> NoQuote])
  /\ UNCHANGED <<aside, variant, classifyReply, ai, rawKind, plan, loopVars, aiCalled, catCalled, only500>>

\* A request that passes both checks.
Accepted(r) ==
  /\ r.method \in Methods
  /\ MethodAllowed(r.method)
  /\ r.body \in Bodies \ {"none"}
  /\ ~DescriptionMissing(r.body)

\* generateWithRetry(model, prompt, maxRetries = 3)
MaxRetriesDefault == 3
\* let delay = 1000
InitialDelay == 1000

\* A text-generation call starts: callWithFallback, or one generateContent.
StartAi(purpose) == [purpose |-> purpose, model |-> "primary", attempt |-> 0,
                     delay |-> InitialDelay, waited |-> 0, calls |-> 0,
                     failed |-> 0]

\* while (attempt < maxRetries), with the loop that would go round once more
\* beside it.
MayRetryOnceMore(attempt) == attempt <= MaxRetriesDefault
MayRetry(attempt) == attempt < MaxRetriesDefault

\* A POST with a job description: the two-call handlers ask for the project
\* type first; beside it a handler that has fetched the catalog by then.
AcceptAfterSearch ==
  /\ pc = "idle"
  /\ variant \in TwoCall
  /\ \E m \in Methods, b \in Bodies :
       /\ Accepted([method |-> m, body |-> b])
       /\ req' = [method |-> m, body |-> b]
  /\ bodyRead' = TRUE
  /\ catCalled' = TRUE
  /\ ai' = StartAi("projectType")
  /\ pc' = "gen"
  /\ UNCHANGED <<aside, variant, classifyReply, resp, rawKind, plan, loopVars, aiCalled,
                 only500>>
Accept ==
  /\ pc = "idle"
  /\ variant \in TwoCall
  /\ \E m \in Methods, b \in Bodies :
       /\ Accepted([method |-> m, body |-> b])
       /\ req' = [method |-> m, body |-> b]
  /\ bodyRead' = TRUE
  /\ ai' = StartAi("projectType")
  /\ pc' = "gen"
  /\ UNCHANGED <<aside, variant, classifyReply, resp, rawKind, plan, loopVars, aiCalled, catCalled, only500>>

\* ------------------------------------------------- text-generation calls
\* if (e.status === 503) of generateWithRetry, with a test that retries
\* every failure beside it.
RetriesAnyStatus(status) == TRUE
RetriesStatus(status) == status = 503

\* if (lastError.status === 503) of callWithFallback, with a test that falls
\* back after every failure beside it.
FallsBackOnAnyStatus(status) == TRUE
FallsBackOnStatus(status) == status = 503

\* model.generateContent fails with `status'.  On a 503 generateWithRetry
\* waits `delay' (ai.waited records the wait), doubles it and tries again
\* while attempt < maxRetries; the call after the loop throws, and any other
\* status is thrown at once.  callWithFallback starts over on the fallback
\* model when the primary model's error is a 503, and rethrows otherwise.
\* The handlers without these helpers throw at once.  A thrown error reaches
\* the handler's try block, whose catch block answers 500; ai.failed is the
\* status of the failure.
GenFails(status) ==
  /\ ai.purpose = "classify" => variant \in WithRetry
  /\ ai.purpose = "keywords" => variant # "part_021"
  /\ aiCalled' = TRUE
  /\ IF variant \in WithRetry /\ RetriesStatus(status) /\ MayRetry(ai.attempt)
     THEN /\ ai' = [ai EXCEPT !.attempt = @ + 1, !.waited = ai.delay,
                              !.delay = @ * 2, !.calls = @ + 1,
                              !.failed = status]
          /\ UNCHANGED <<aside, variant, classifyReply, pc, req, resp, rawKind, plan, loopVars,
                         catCalled, bodyRead, only500>>
     ELSE IF variant \in WithRetry /\ ai.model = "primary" /\ FallsBackOnStatus(status)
     THEN /\ ai' = [StartAi(ai.purpose) EXCEPT !.model = "fallback",
                                                !.calls = ai.calls + 1,
                                                !.failed = status]
          /\ UNCHANGED <<aside, variant, classifyReply, pc, req, resp, rawKind, plan, loopVars,
                         catCalled, bodyRead, only500>>
     ELSE /\ Respond(ServerError(variant, IF status = 503 THEN "Upstream503"
                                          ELSE "UpstreamError"))
          /\ ai' = [ai EXCEPT !.calls = @ + 1, !.failed = status]
          /\ UNCHANGED <<aside, variant, classifyReply, req, rawKind, plan, loopVars,
                         catCalled, bodyRead, only500>>

\* model.generateContent fails with status 503 (overloaded).
Gen503 ==
  /\ pc = "gen"
  /\ GenFails(503)

\* model.generateContent fails with another status.
GenError ==
  /\ pc = "gen"
  /\ GenFails(500)

\* getProjectType returns: generateExpertPlan is called next.
GenOkProjectType ==
  /\ pc = "gen"
  /\ ai.purpose = "projectType"
  /\ aiCalled' = TRUE
  /\ ai' = StartAi("plan")
  /\ UNCHANGED <<aside, variant, classifyReply, pc, req, resp, rawKind, plan, loopVars, catCalled,
                 bodyRead, only500>>

\* Which braces a raw reply holds.
BracesOf(raw) ==
  IF IndexOf(raw, "{") >= 0
  THEN (IF IndexOf(raw, "}") >= 0 THEN "both" ELSE "open")
  ELSE (IF IndexOf(raw, "}") >= 0 THEN "close" ELSE "none")

\* What generateExpertPlan makes of the raw reply: JSON.parse of the text
\* from the first "{" to the last "}", with no check that both exist.
ExpertPlanParse(raw) == JsonParse(BraceSubstring(raw))

\* generateExpertPlan returns or throws; on a plan the handler enters its
\* loop over the materials.
GenOkPlan ==
  /\ pc = "gen"
  /\ ai.purpose = "plan"
  /\ variant \in TwoCall
  /\ aiCalled' = TRUE
  /\ ai' = NoAi
  /\ \E raw \in RawReplies :
       /\ rawKind' = BracesOf(raw)
       /\ CASE ExpertPlanParse(raw) = "error" ->
                 /\ Respond(ServerError(variant, "JsonSyntaxError"))
                 /\ UNCHANGED <<plan, loopVars>>
            [] ExpertPlanParse(raw) = "number" ->
                 /\ plan' = PlanOfNumber
                 /\ matIdx' = 1
                 /\ pc' = "loop"
                 /\ UNCHANGED <<resp, products, words, all, finalMaterials>>
            [] ExpertPlanParse(raw) = "object" ->
                 /\ plan' \in PlanObjects
                 /\ matIdx' = 1
                 /\ pc' = "loop"
                 /\ UNCHANGED <<resp, products, words, all, finalMaterials>>
  /\ UNCHANGED <<aside, variant, classifyReply, req, catCalled, bodyRead, only500>>

\* ------------------------------------------------------- the materials loop
\* const materialsList = Array.isArray(plan.materials) ? plan.materials : [];
\* part_012 iterates plan.materials as it is.
MaterialsList(pl) == IF pl.materials.k = "array" THEN pl.materials.items ELSE <<>>

\* (mat.name || mat.item || '').trim(), computed once per material of the
\* pool.
MaterialName ==
  [mat \in MaterialPool |-> Trim(JsOr(JsOr(mat.name, mat.item), Str(<<>>)).s)]

\* The material the loop is at.
CurrentMaterial == MaterialsList(plan)[matIdx]

\* for (const material of plan.materials) of part_012 when plan.materials is
\* no array: a TypeError, caught.
LoopNotIterable ==
  /\ pc = "loop"
  /\ variant = "part_012"
  /\ plan.materials.k # "array"
  /\ Respond(ServerError(variant, "TypeError"))
  /\ UNCHANGED <<aside, variant, classifyReply, req, ai, rawKind, plan, loopVars, aiCalled,
                 catCalled, bodyRead, only500>>

\* if (!materialName) continue;
SkipMaterial ==
  /\ pc = "loop"
  /\ variant \in TwoCall \ {"part_012"}
  /\ matIdx <= Len(MaterialsList(plan))
  /\ MaterialName[CurrentMaterial] = <<>>
  /\ matIdx' = matIdx + 1
  /\ UNCHANGED <<aside, variant, classifyReply, pc, req, resp, ai, rawKind, plan, products, words,
                 all, finalMaterials, aiCalled, catCalled, bodyRead, only500>>

\* The query of the primary search: cleanTitle(materialName); part_012
\* searches for material.name as it is ("undefined" when it is missing).
BaseQuery ==
  [v \in TwoCall, mat \in MaterialPool |->
     IF v = "part_012"
     THEN (IF mat.name.k = "str" THEN mat.name.s
           ELSE <<"u","n","d","e","f","i","n","e","d">>)
     ELSE cleanTitle(MaterialName[mat])]

\* The loop reaches a material it resolves: the primary search is awaited.
StartSearch ==
  /\ pc = "loop"
  /\ variant \in TwoCall
  /\ plan.materials.k = "array"
  /\ matIdx <= Len(MaterialsList(plan))
  /\ variant = "part_012" \/ MaterialName[CurrentMaterial] # <<>>
  /\ pc' = "search"
  /\ UNCHANGED <<aside, variant, classifyReply, req, resp, ai, rawKind, plan, loopVars, aiCalled,
                 catCalled, bodyRead, only500>>

\* What one lookup of the catalog comes to in searchWordPressProducts.
\* part_018, part_008, part_021 and the two-call generate-quote.js answer []
\* to every failure; part_012 answers [] to a failed request and a non-2xx
\* status and rejects on a body that is no JSON (res.json() is returned
\* unawaited); part_009 and part_013 answer [] to a non-2xx status and let the
\* other two reject; the others throw on all three.
LookupResult(v, out) ==
  IF out.http = "ok" THEN [throws |-> FALSE, products |-> out.products, message |-> ""]
  ELSE IF \/ v \in WithWordFallback \cup {"part_021"}
          \/ v \in {"part_009", "part_013"} /\ out.http = "500"
          \/ v = "part_012" /\ out.http # "badjson"
       THEN [throws |-> FALSE, products |-> <<>>, message |-> ""]
  ELSE [throws |-> TRUE, products |-> <<>>,
        message |-> CASE out.http = "neterr" -> "NetworkError"
                      [] out.http = "500" -> "CatalogStatusError"
                      [] out.http = "badjson" -> "CatalogJsonError"]

\* Array.from(new Map(all.map(p => [p[key], p])).values()): one entry per
\* key, at the place of the key's first occurrence, holding its last
\* occurrence; beside it a merge that only drops an entry that repeats the
\* key of the entry before it.
DedupeAdjacent(ps, key) ==
  LET differs(i) == i = 1 \/ ps[i - 1][key] # ps[i][key]
      idx == SelectSeq([i \in 1..Len(ps) |-> i], differs)
  IN [n \in 1..Len(idx) |-> ps[idx[n]]]
DedupeBy(ps, key) ==
  LET firstAt(i) == \A j \in 1..(i - 1) : ps[j][key] # ps[i][key]
      lastOf(i) == ps[CHOOSE j \in i..Len(ps) :
                        ps[j][key] = ps[i][key]
                        /\ \A m \in (j + 1)..Len(ps) : ps[m][key] # ps[i][key]]
      idx == SelectSeq([i \in 1..Len(ps) |-> i], firstAt)
  IN [n \in 1..Len(idx) |-> lastOf(idx[n])]

\* The primary search returns.  With no product the two-call handlers other
\* than part_012 look up the words of the query that are longer than 3.
SearchPrimary ==
  /\ pc = "search"
  /\ variant \in TwoCall
  /\ catCalled' = TRUE
  /\ \E out \in FetchOutcomes :
       LET r == LookupResult(variant, out)
           q == BaseQuery[variant, CurrentMaterial]
       IN /\ only500' = (only500 /\ out.http = "500")
          /\ IF r.throws
             THEN /\ Respond(ServerError(variant, "CatalogJsonError"))
                  /\ UNCHANGED <<products, words, all>>
             ELSE IF r.products = <<>> /\ variant \in WithWordFallback
                     /\ LongWords(q) # <<>>
             THEN /\ words' = LongWords(q)
                  /\ all' = <<>>
                  /\ pc' = "wordSearch"
                  /\ UNCHANGED <<resp, products>>
             ELSE /\ products' = r.products
                  /\ pc' = "match"
                  /\ UNCHANGED <<resp, words, all>>
  /\ UNCHANGED <<aside, variant, classifyReply, req, ai, rawKind, plan, matIdx, finalMaterials,
                 aiCalled, bodyRead>>

\* One word-by-word lookup returns; after the last one the union is
\* deduplicated by id (all holds the union until the material is resolved).
SearchWord ==
  /\ pc = "wordSearch"
  /\ catCalled' = TRUE
  /\ \E out \in FetchOutcomes :
       LET r == LookupResult(variant, out)
       IN /\ only500' = (only500 /\ out.http = "500")
          /\ IF Len(words) > 1
             THEN /\ all' = all \o r.products
                  /\ words' = Tail(words)
                  /\ UNCHANGED <<pc, products>>
             ELSE /\ products' = DedupeBy(all \o r.products, "id")
                  /\ all' = all \o r.products
                  /\ words' = <<>>
                  /\ pc' = "match"
  /\ UNCHANGED <<aside, variant, classifyReply, req, resp, ai, rawKind, plan, matIdx, finalMaterials,
                 aiCalled, bodyRead>>

\* ------------------------------------------------------ matching products
\* const THRESHOLD = 0.6 (part_018, generate-quote.js); e.score >= 0.3 (part_008)
Threshold(v) == IF v = "part_008" THEN <<3, 10>> ELSE <<6, 10>>
\* filtered.slice(0, 3)
TopN == 3
\* .slice(0, 5) of part_012
TopMatches == 5

\* products.filter(p => !/colour\b/i.test(p.name))
ColourFiltered(ps) ==
  LET colour(name) ==
        \E i \in 1..Len(name) :
          /\ MatchLit(name, i, <<"c","o","l","o","u","r">>)
          /\ (i + 6 > Len(name) \/ name[i + 6] \notin WordChars)
      keep(p) == ~colour(p.name)
  IN SelectSeq(ps, keep)

\* The title a product is compared by: cleanTitle(p.name).toLowerCase(), and
\* cleanTitle(p.name) in part_012; computed once per product.
Key ==
  [v \in TwoCall, p \in CatalogProducts |->
     IF v = "part_012" THEN cleanTitle(p.name) ELSE ToLowerCase(cleanTitle(p.name))]


\* The rating of every material of the pool against every product, computed
\* once: compareTwoStrings of the two titles as the handler compares them.
Rating ==
  [v \in TwoCall, mat \in MaterialPool, p \in CatalogProducts |->
     compareTwoStrings(IF v = "part_012" THEN cleanTitle(BaseQuery[v, mat])
                       ELSE ToLowerCase(BaseQuery[v, mat]),
                       Key[v, p])]

\* The ratings of findBestMatch (one per product, in the products' order),
\* each with the product found for its target (products.find(p => key(p) ===
\* target): the first product with that title), best score first.
Scored(v, mat, ps) ==
  LET find(target) ==
        ps[CHOOSE i \in 1..Len(ps) :
             /\ Key[v, ps[i]] = target
             /\ \A j \in 1..(i - 1) : Key[v, ps[j]] # target]
  IN SortByScoreDesc([i \in 1..Len(ps) |->
       [score |-> Rating[v, mat, ps[i]], product |-> find(Key[v, ps[i]])]])

\* scored.filter(({product}) => queryWords.every(w => name.includes(w)))
Filtered(v, mat, ps) ==
  LET queryWords == LongWords(ToLowerCase(BaseQuery[v, mat]))
      hasAll(e) == \A i \in 1..Len(queryWords) :
                     Includes(Key[v, e.product], queryWords[i])
  IN SelectSeq(Scored(v, mat, ps), hasAll)

ProductsOf(entries) == [i \in 1..Len(entries) |-> entries[i].product]
FirstN(seq, n) == SubSeq(seq, 1, Min(n, Len(seq)))

\* filtered.filter(e => e.score >= THRESHOLD).map(e => e.product)
Confident(v, mat, ps) ==
  LET sure(e) == RatingGeq(e.score, Threshold(v))
  IN ProductsOf(SelectSeq(Filtered(v, mat, ps), sure))

\* part_008: the products scored at least 0.3, and all of them when none is.
Relevant(v, mat, ps) ==
  LET sure(e) == RatingGeq(e.score, Threshold(v))
      scored == Scored(v, mat, ps)
      relevant == SelectSeq(scored, sure)
  IN ProductsOf(IF relevant # <<>> THEN relevant ELSE scored)

\* The manual placeholder of a material, its id
\* `manual-${baseQuery.replace(/\s+/g, '-')}`.
Placeholder(q, name) ==
  [id |-> <<"m","a","n","u","a","l","-">> \o ReplaceSpaces(q, 1, <<"-">>),
   name |-> name]

\* Products as options: the id and the cleaned title of each.
OptionsOf(ps) ==
  [i \in 1..Len(ps) |-> [id |-> ps[i].id, name |-> Key["part_012", ps[i]]]]

\* const options = [placeholder, ...chosen.map(...)]
Options(q, name, chosen) == <<Placeholder(q, name)>> \o OptionsOf(chosen)

\* finalMaterials.push({ ...mat, name: materialName, options })
Resolved(mat, name, options) ==
  [name |-> name, quantity |-> mat.quantity, options |-> options]

\* The loop goes on to the next material.
FinishMaterial(entry) ==
  /\ finalMaterials' = Append(finalMaterials, entry)
  /\ matIdx' = matIdx + 1
  /\ products' = <<>>
  /\ words' = <<>>
  /\ all' = <<>>
  /\ pc' = "loop"


\* chosen after classifyProducts: the products whose id is kept, and the
\* first 3 of the filtered list when no id is kept; beside it a choice that
\* looks the kept ids up in the whole catalog.
DisambiguatedFromCatalog(v, mat, ps, keepIds) ==
  IF keepIds # <<>>
  THEN LET kept(p) == \E i \in 1..Len(keepIds) : keepIds[i] = p.id
       IN SelectSeq(Catalog, kept)
  ELSE FirstN(ProductsOf(Filtered(v, mat, ps)), TopN)
Disambiguated(v, mat, ps, keepIds) ==
  IF keepIds # <<>>
  THEN LET kept(p) == \E i \in 1..Len(keepIds) : keepIds[i] = p.id
       IN SelectSeq(ps, kept)
  ELSE FirstN(ProductsOf(Filtered(v, mat, ps)), TopN)

\* part_018 and generate-quote.js: the steps after the search, up to the
\* options or to the await of the classification call.
MatchFuzzy ==
  /\ pc = "match"
  /\ variant \in {"part_018", "generate_quote_b"}
  /\ LET mat == CurrentMaterial
         name == MaterialName[mat]
         q == BaseQuery[variant, mat]
         ps == ColourFiltered(products)
     IN IF findBestMatchThrows(ps)
        THEN /\ Respond(ServerError(variant, "BadArguments"))
             /\ UNCHANGED <<ai, loopVars>>
        ELSE IF Len(Confident(variant, mat, ps)) = 1
        THEN /\ FinishMaterial(Resolved(mat, Str(name),
                                        Options(q, name, Confident(variant, mat, ps))))
             /\ UNCHANGED <<ai, resp>>
        ELSE IF Len(ps) <= 3
        THEN /\ FinishMaterial(Resolved(mat, Str(name),
                 Options(q, name, Disambiguated(variant, mat, ps, [i \in 1..Len(ps) |-> ps[i].id]))))
             /\ UNCHANGED <<ai, resp>>
        ELSE IF \E i \in 1..Len(ps) : ~ps[i].hasDescription
        THEN /\ Respond(ServerError(variant, "TypeError"))
             /\ UNCHANGED <<ai, loopVars>>
        ELSE /\ ai' = StartAi("classify")
             /\ products' = ps
             /\ pc' = "gen"
             /\ UNCHANGED <<resp, matIdx, words, all, finalMaterials>>
  /\ UNCHANGED <<aside, variant, classifyReply, req, rawKind, plan, aiCalled, catCalled, bodyRead, only500>>

\* The rest of classifyProducts: arr.map(String) of a parsed array, [] else.

\* The classification call returns and the material is resolved.  The reply
\* holds text that is no JSON, JSON that is no array, or an array of ids ("9"
\* is the id of no product).
GenOkClassify ==
  /\ pc = "gen"
  /\ ai.purpose = "classify"
  /\ aiCalled' = TRUE
  /\ ai' = NoAi
  /\ \E reply \in
         { [kind |-> "unparsable", ids |-> <<>>], [kind |-> "notArray", ids |-> <<>>] }
         \cup { [kind |-> "array", ids |-> l] :
                  l \in { <<>>, << <<"1">> >>, << <<"3">>, <<"5">> >>, << <<"9">> >>,
                          << <<"2">>, <<"2">>, <<"9">> >> } } :
       LET mat == CurrentMaterial
           name == MaterialName[mat]
           q == BaseQuery[variant, mat]
       IN /\ classifyReply' = reply
          /\ FinishMaterial(Resolved(mat, Str(name),
               Options(q, name, Disambiguated(variant, mat, products,
                             IF reply.kind = "array" THEN reply.ids ELSE <<>>))))
  /\ UNCHANGED <<aside, variant, req, resp, rawKind, plan, catCalled, bodyRead, only500>>

\* generate-quote.js awaits the classification call inside the try block of
\* classifyProducts: any failure is logged and [] is returned.
ClassifyFails ==
  /\ pc = "gen"
  /\ ai.purpose = "classify"
  /\ variant = "generate_quote_b"
  /\ aiCalled' = TRUE
  /\ ai' = NoAi
  /\ LET mat == CurrentMaterial
         name == MaterialName[mat]
         q == BaseQuery[variant, mat]
     IN FinishMaterial(Resolved(mat, Str(name),
          Options(q, name, Disambiguated(variant, mat, products, <<>>))))
  /\ classifyReply' = [kind |-> "failed", ids |-> <<>>]
  /\ UNCHANGED <<aside, variant, req, resp, rawKind, plan, catCalled, bodyRead, only500>>

\* part_008: no product left is the manual fallback; else every product
\* scored at least 0.3 (all of them when none is) follows the placeholder.
MatchAll ==
  /\ pc = "match"
  /\ variant = "part_008"
  /\ LET mat == CurrentMaterial
         name == MaterialName[mat]
         q == BaseQuery[variant, mat]
         ps == ColourFiltered(products)
     IN IF ps = <<>>
        THEN FinishMaterial(Resolved(mat, Str(name), <<Placeholder(q, name)>>))
        ELSE FinishMaterial(Resolved(mat, Str(name),
                                     Options(q, name, Relevant(variant, mat, ps))))
  /\ UNCHANGED <<aside, variant, classifyReply, req, resp, ai, rawKind, plan, aiCalled, catCalled,
                 bodyRead, only500>>

\* part_012: cleanTitle(material.name) throws on a missing name and
\* findBestMatch on no product; else the 5 best products are the options,
\* and the manual entry stands in only for an empty list of them.
MatchTop ==
  /\ pc = "match"
  /\ variant = "part_012"
  /\ LET mat == CurrentMaterial
     IN IF mat.name.k # "str"
        THEN /\ Respond(ServerError(variant, "TypeError"))
             /\ UNCHANGED loopVars
        ELSE IF findBestMatchThrows(products)
        THEN /\ Respond(ServerError(variant, "BadArguments"))
             /\ UNCHANGED loopVars
        ELSE LET top == FirstN(ProductsOf(Scored(variant, mat, products)),
                               TopMatches)
             IN /\ FinishMaterial(Resolved(mat, mat.name,
                     IF top # <<>> THEN OptionsOf(top)
                     ELSE <<Placeholder(mat.name.s, mat.name.s)>>))
                /\ UNCHANGED resp
  /\ UNCHANGED <<aside, variant, classifyReply, req, ai, rawKind, plan, aiCalled, catCalled,
                 bodyRead, only500>>

\* ------------------------------------------------------- the assembled quote
\* const labourRate = Number(cq.labourRate) || 35; labourRate: 35
DefaultLabourRate == 35


\* The customerQuote of the response: the plan's own members are spread
\* first, then quoteNumber, date and the three labour members are set.
CustomerQuote(labourHours, labourRate, labourCost) ==
  [k |-> "obj", labourHours |-> labourHours, labourRate |-> labourRate,
   labourCost |-> labourCost, quoteNumber |-> TRUE]

\* part_018, part_008 and generate-quote.js: cq = plan.customerQuote || {},
\* labourHours = Number(cq.labourHours) || 0,
\* labourRate = Number(cq.labourRate) || 35, labourCost = their product.
NormalisedLabour(pl) ==
  LET cq == JsOr(pl.customerQuote,
                 [k |-> "obj", labourHours |-> Undefined, labourRate |-> Undefined])
      labourHours == JsOr(JsNumber(cq.labourHours), Num(0))
      labourRate == JsOr(JsNumber(cq.labourRate), Num(DefaultLabourRate))
  IN CustomerQuote(labourHours, labourRate, JsMul(labourHours, labourRate))

\* part_012 and the catalog-first generate-quote.js: labourHours stays as the
\* plan gave it, labourRate is 35 and labourCost is (labourHours || 0) * 35.
FixedRateLabour(cq) ==
  CustomerQuote(cq.labourHours, Num(DefaultLabourRate),
                JsMul(JsOr(cq.labourHours, Num(0)), Num(DefaultLabourRate)))

\* The quote of a 200 response.
Quote(materials, method, customerQuote) ==
  [k |-> "quote", materials |-> materials, method |-> method,
   customerQuote |-> customerQuote]

\* After the last material the quote is assembled and sent.  part_012 reads
\* plan.customerQuote.labourHours: a TypeError when the plan has no
\* customerQuote.
Assemble ==
  /\ pc = "loop"
  /\ variant \in TwoCall
  /\ plan.materials.k = "array" \/ variant # "part_012"
  /\ matIdx > Len(MaterialsList(plan))
  /\ IF variant = "part_012"
     THEN IF plan.customerQuote.k # "obj"
          THEN Respond(ServerError(variant, "TypeError"))
          ELSE Respond(Ok(Quote([k |-> "array", items |-> finalMaterials],
                                plan.method, FixedRateLabour(plan.customerQuote))))
     ELSE Respond(Ok(Quote([k |-> "array", items |-> finalMaterials],
                           JsOr(plan.method, [k |-> "obj", steps |-> TRUE, considerations |-> TRUE]), NormalisedLabour(plan))))
  /\ UNCHANGED <<aside, variant, classifyReply, req, ai, rawKind, plan, loopVars, aiCalled, catCalled,
                 bodyRead, only500>>

\* ------------------------------------------- catalog-first: product groups
\* Index just past the longest run of digits and dots at i ([\d.]+).
RECURSIVE NumberEnd(_, _)
NumberEnd(s, i) ==
  IF i <= Len(s) /\ s[i] \in Digits \cup {"."} THEN NumberEnd(s, i + 1) ELSE i

\* (m|mm|kg|m2|sqm|inch|") in the order the pattern tries them: "m" is found
\* before "mm", and before "m" with a superscript two.
\* \s?[\d.]+(m|mm|kg|...) at i: index past the match, 0 when none.
GroupMeasureEnd(s, i) ==
  LET groupUnits == << <<"m">>, <<"m","m">>, <<"k","g">>, <<"s","q","m">>,
                       <<"i","n","c","h">>, <<"\"">> >>
      j == OptSpaceEnd(s, i)
      d == NumberEnd(s, j)
  IN IF d > j THEN AltEnd(s, d, groupUnits) ELSE 0

\* .replace(/\s?[\d.]+(m|mm|kg|...)/gi, '') from position i on.
RECURSIVE StripMeasures(_, _)
StripMeasures(s, i) ==
  IF i > Len(s) THEN <<>>
  ELSE IF GroupMeasureEnd(s, i) > 0 THEN StripMeasures(s, GroupMeasureEnd(s, i))
  ELSE <<s[i]>> \o StripMeasures(s, i + 1)

\* Index of the last ")" at or after i on the line of i, 0 when there is
\* none (the greedy .* of \(.*\)).
LastCloseParen(s, i) ==
  LET e == LineEnd(s, i)
      at == {j \in i..(e - 1) : s[j] = ")"}
  IN IF at = {} THEN 0 ELSE CHOOSE j \in at : \A m \in at : m <= j

\* .replace(/\(.*\)/g, '') from position i on.
RECURSIVE StripParensGreedy(_, _)
StripParensGreedy(s, i) ==
  IF i > Len(s) THEN <<>>
  ELSE IF s[i] = "(" /\ LastCloseParen(s, i + 1) > 0
       THEN StripParensGreedy(s, LastCloseParen(s, i + 1) + 1)
  ELSE <<s[i]>> \o StripParensGreedy(s, i + 1)

\* (\s+-\s+.*|\(.*\)) at i: index past the match, 0 when none.
DashOrParensEnd(s, i) ==
  IF s[i] \in Spaces
  THEN LET j == SpacesEnd(s, i)
       IN IF j + 1 <= Len(s) /\ s[j] = "-" /\ s[j + 1] \in Spaces
          THEN LineEnd(s, j) ELSE 0
  ELSE IF s[i] = "(" /\ LastCloseParen(s, i + 1) > 0
       THEN LastCloseParen(s, i + 1) + 1
  ELSE 0

\* .replace(/(\s+-\s+.*|\(.*\))/, ''): the first match only.
RECURSIVE StripFirstDashOrParens(_, _)
StripFirstDashOrParens(s, i) ==
  IF i > Len(s) THEN <<>>
  ELSE IF DashOrParensEnd(s, i) > 0 THEN SubSeq(s, DashOrParensEnd(s, i), Len(s))
  ELSE <<s[i]>> \o StripFirstDashOrParens(s, i + 1)

\* cleanTitle of the catalog-first generate-quote.js: the dash of its second
\* pattern is an en dash, which no title of the model holds.
cleanTitleQuote(title) == Trim(StripParensGreedy(StripMeasures(title, 1), 1))

\* cleanTitle of the handler in ProductDropdown.jsx.
cleanTitleDropdown(title) == Trim(StripFirstDashOrParens(StripMeasures(title, 1), 1))

\* baseName of groupProducts, computed once per product.
BaseNameOf ==
  [v \in {"generate_quote_a", "ProductDropdown"}, p \in CatalogProducts |->
     IF v = "generate_quote_a" THEN cleanTitleQuote(p.name)
     ELSE cleanTitleDropdown(p.name)]

\* groupProducts(results): the groups in the order their base names first
\* occur, each with its products (id and full name) in the order of the
\* results.
groupProducts(v, results) ==
  LET firstAt(i) == \A j \in 1..(i - 1) :
                      BaseNameOf[v, results[j]] # BaseNameOf[v, results[i]]
      idx == SelectSeq([i \in 1..Len(results) |-> i], firstAt)
  IN [n \in 1..Len(idx) |->
       LET key == BaseNameOf[v, results[idx[n]]]
           inGroup(p) == BaseNameOf[v, p] = key
           members == SelectSeq(results, inGroup)
       IN [key |-> key,
           variants |-> [m \in 1..Len(members) |->
                         [id |-> members[m].id, name |-> members[m].name]]]]

\* clean(str) of getBestMatchByWords, split at white space, as a set:
\* new Set(str.toLowerCase().replace(/[^\w\s]/g, '').trim().split(/\s+/))
CleanWords(str) ==
  LET kept(c) == c \in WordChars \cup Spaces
      ws == SplitSpaces(Trim(SelectSeq(ToLowerCase(str), kept)), 1, <<>>)
  IN {ws[i] : i \in 1..Len(ws)}


\* The loop of getBestMatchByWords from group n on: the index of the best
\* group so far (0 for null) and its score.
RECURSIVE BestGroupFrom(_, _, _, _, _)
BestGroupFrom(groups, keywords, n, best, bestScore) ==
  IF n > Len(groups) THEN best
  ELSE LET score == << Cardinality(keywords \cap CleanWords(groups[n].key)),
                       Cardinality(keywords) >>
       IN IF RatingGt(score, bestScore) /\ RatingGeq(score, <<4, 10>>)
          THEN BestGroupFrom(groups, keywords, n + 1, n, score)
          ELSE BestGroupFrom(groups, keywords, n + 1, best, bestScore)

\* getBestMatchByWords(name, grouped): the variants of the best group, <<>>
\* for null.
getBestMatchByWords(name, groups) ==
  LET best == BestGroupFrom(groups, CleanWords(name), 1, 0, <<0, 1>>)
  IN IF best = 0 THEN <<>> ELSE groups[best].variants

\* item.options = match && match.length ? match : Object.values(grouped)[0] || []
DropdownOptions(name, groups) ==
  IF getBestMatchByWords(name, groups) # <<>> THEN getBestMatchByWords(name, groups)
  ELSE IF groups # <<>> THEN groups[1].variants
  ELSE <<>>

\* item.options of generate-quote.js: the group named as the material, or
\* the manual entry alone.
GroupOptions(name, groups) ==
  IF \E n \in 1..Len(groups) : groups[n].key = name
  THEN groups[CHOOSE n \in 1..Len(groups) : groups[n].key = name].variants
  ELSE <<Placeholder(name, name)>>

\* item.name.replace(/"/g, '')
RemoveQuotes(name) == LET kept(c) == c # "\"" IN SelectSeq(name, kept)

\* json.materials.forEach(item => ...): whether it throws a TypeError (no
\* array to iterate, or an item whose name is no string).
MaterialsThrow(materials) ==
  \/ materials.k # "array"
  \/ \E i \in 1..Len(materials.items) : materials.items[i].name.k # "str"

\* The materials of the response of generate-quote.js and ProductDropdown.jsx.
WithOptions(v, materials, groups) ==
  [k |-> "array",
   items |-> [i \in 1..Len(materials.items) |->
     LET item == materials.items[i]
     IN IF v = "generate_quote_a"
        THEN Resolved(item, Str(RemoveQuotes(item.name.s)),
                      GroupOptions(RemoveQuotes(item.name.s), groups))
        ELSE Resolved(item, item.name, DropdownOptions(item.name.s, groups))]]

\* --------------------------------------------- catalog-first: the search
\* Keywords a job description yields; what they are does not decide what a
\* lookup answers.
\* Array.from(new Set(...)): lists without repetition.
KeywordLists ==
  {l \in SeqsUpTo({"sand", "grit", "slab"}, MaxKeywords) :
     \A i, j \in 1..Len(l) : i # j => l[i] # l[j]}

\* keywords.slice(0, 5) of part_013
KeywordLimit == 5

\* The handlers whose search makes one lookup per keyword.
PerKeyword == {"part_021", "part_013"}

\* The queries searchWordPressProducts sends for a keyword list: one per
\* keyword, or the keywords joined into one (which part_009 does not send for
\* an empty list).
Queries(v, kws) ==
  IF v = "part_021" THEN [i \in 1..Len(kws) |-> <<kws[i]>>]
  ELSE IF v = "part_013"
       THEN [i \in 1..Min(Len(kws), KeywordLimit) |-> <<kws[i]>>]
  ELSE IF v = "part_009" /\ kws = <<>> THEN <<>>
  ELSE <<kws>>

\* naturalStoneTerms.some(term => text.includes(term)) and not
\* /concrete|utility|pressed/.test(text), on the lower-cased text of a product.
IsNaturalStone(text) ==
  /\ \E term \in { <<"s","a","n","d","s","t","o","n","e">>,
                   <<"l","i","m","e","s","t","o","n","e">>,
                   <<"s","l","a","t","e">>, <<"g","r","a","n","i","t","e">>,
                   <<"t","r","a","v","e","r","t","i","n","e">>,
                   <<"y","o","r","k","s","t","o","n","e">>,
                   <<"p","o","r","p","h","y","r","y">>,
                   <<"s","t","o","n","e">> } : Includes(text, term)
  /\ \A word \in { <<"c","o","n","c","r","e","t","e">>,
                   <<"u","t","i","l","i","t","y">>,
                   <<"p","r","e","s","s","e","d">> } : ~Includes(text, word)

\* /natural\s+stone/i.test(jobDescription), in the handler that filters
\* (part_021); the request is the one being served.
prefersNatural == variant = "part_021" /\ req.body = "naturalStone"

\* filterByNaturalStonePreference(products, jobDescription)
\* The text is (p.title + ' ' + p.description).toLowerCase(): the products
\* of the catalog carry a name and no title, and the name stands for what
\* their description says.
filterByNaturalStonePreference(ps, prefers) ==
  LET natural(p) ==
        IsNaturalStone(<<"u","n","d","e","f","i","n","e","d"," ">>
                         \o ToLowerCase(p.name))
  IN IF prefers THEN SelectSeq(ps, natural) ELSE ps


\* The search is over: the planning call is made, after the API key check
\* where the handler checks it at this point.
PlanCall(ps) ==
  /\ products' = ps
  /\ \E key \in (IF variant \in {"part_009", "part_013"} THEN BOOLEAN ELSE {TRUE}) :
       IF key
       THEN ai' = StartAi("plan") /\ pc' = "gen" /\ UNCHANGED resp
       ELSE Respond(ServerError(variant, "ApiKeyMissing")) /\ ai' = NoAi

\* searchWordPressProducts is called with the queries qs.
StartLookups(qs) ==
  IF qs = <<>>
  THEN /\ PlanCall(filterByNaturalStonePreference(<<>>, prefersNatural))
       /\ UNCHANGED <<words, all>>
  ELSE /\ words' = qs
       /\ all' = <<>>
       /\ pc' = "kwSearch"
       /\ ai' = NoAi
       /\ UNCHANGED <<resp, products>>

\* The keyword heuristic (extractKeywords, fallbackKeywordExtractor) meets a
\* word of the description that names an inherited property, such as
\* "constructor": synonyms[w].forEach (or .split) is no function, and the
\* TypeError reaches the handler's catch block.
HeuristicThrows ==
  /\ Respond(ServerError(variant, "KeywordTypeError"))
  /\ ai' = NoAi
  /\ UNCHANGED <<products, words, all>>

\* A POST with a job description reaches a catalog-first handler: the key
\* check and the keyword call, or the keyword heuristic and the search.
AcceptSearchFirst ==
  /\ pc = "idle"
  /\ variant \in CatalogFirst
  /\ \E m \in Methods, b \in Bodies :
       /\ Accepted([method |-> m, body |-> b])
       /\ req' = [method |-> m, body |-> b]
  /\ bodyRead' = TRUE
  /\ IF variant \in {"part_021", "part_014"}
     THEN /\ \E key \in BOOLEAN :
               IF key
               THEN ai' = StartAi("keywords") /\ pc' = "gen" /\ UNCHANGED resp
               ELSE Respond(ServerError(variant, "ApiKeyMissing")) /\ ai' = NoAi
          /\ UNCHANGED <<products, words, all>>
     ELSE \/ \E kws \in KeywordLists : StartLookups(Queries(variant, kws))
          \/ HeuristicThrows
  /\ UNCHANGED <<aside, variant, classifyReply, rawKind, plan, matIdx, finalMaterials, aiCalled,
                 catCalled, only500>>

\* The keyword call returns.  part_021 falls back on the words of the
\* description when the reply lists no keyword; part_014 parses the reply as
\* JSON and throws when it is none.
GenOkKeywords ==
  /\ pc = "gen"
  /\ ai.purpose = "keywords"
  /\ aiCalled' = TRUE
  /\ IF variant = "part_021"
     THEN \E replied \in KeywordLists :
            IF replied # <<>> THEN StartLookups(Queries(variant, replied))
            ELSE \/ \E fromText \in KeywordLists :
                      StartLookups(Queries(variant, fromText))
                 \/ HeuristicThrows
     ELSE \/ /\ Respond(ServerError(variant, "KeywordJsonError"))
             /\ ai' = NoAi
             /\ UNCHANGED <<products, words, all>>
          \/ \E replied \in KeywordLists : StartLookups(Queries(variant, replied))
  /\ UNCHANGED <<aside, variant, classifyReply, req, rawKind, plan, matIdx, finalMaterials, catCalled,
                 bodyRead, only500>>

\* getSearchKeywords of part_021 catches a failed call and returns []: the
\* words of the description are the keywords, unless the heuristic throws.
KeywordsFail ==
  /\ pc = "gen"
  /\ ai.purpose = "keywords"
  /\ variant = "part_021"
  /\ aiCalled' = TRUE
  /\ \/ \E fromText \in KeywordLists : StartLookups(Queries(variant, fromText))
     \/ HeuristicThrows
  /\ UNCHANGED <<aside, variant, classifyReply, req, rawKind, plan, matIdx, finalMaterials, catCalled,
                 bodyRead, only500>>

\* One lookup of the search returns; after the last one the handler goes on
\* with what was found.
KeywordLookup ==
  /\ pc = "kwSearch"
  /\ catCalled' = TRUE
  /\ \E out \in FetchOutcomes :
       LET r == LookupResult(variant, out)
       IN /\ only500' = (only500 /\ out.http = "500")
          /\ IF r.throws
             THEN /\ Respond(ServerError(variant, r.message))
                  /\ UNCHANGED <<ai, products, words, all>>
             ELSE IF Len(words) > 1
             THEN /\ all' = all \o r.products
                  /\ words' = Tail(words)
                  /\ UNCHANGED <<pc, resp, ai, products>>
             ELSE /\ all' = all \o r.products
                  /\ words' = <<>>
                  /\ PlanCall(filterByNaturalStonePreference(
                                 IF variant \in PerKeyword
                                 THEN DedupeBy(all \o r.products, "url")
                                 ELSE all \o r.products,
                                 prefersNatural))
  /\ UNCHANGED <<aside, variant, classifyReply, req, rawKind, plan, matIdx, finalMaterials, aiCalled,
                 bodyRead>>

\* ----------------------------------------- catalog-first: the planning call

\* What the handler makes of the raw reply: "object" or "number" (the value
\* JSON.parse returns), "error" (JSON.parse throws), "noObject" (the
\* handler's own check for a missing brace throws) or "malformed" (the check
\* of ProductDropdown.jsx for "{" and the word materials throws).
ReplyParse(v, raw, mentionsMaterials) ==
  IF v = "part_014" THEN JsonParse(BraceSubstring(raw))
  ELSE IF v = "ProductDropdown"
       THEN (IF IndexOf(raw, "{") = -1 \/ ~mentionsMaterials THEN "malformed"
             ELSE JsonParse(BraceSubstring(raw)))
  ELSE IF IndexOf(raw, "{") = -1 \/ LastIndexOf(raw, "}") = -1 THEN "noObject"
  ELSE IF v = "generate_quote_a" THEN JsonParse(BraceSubstring(raw))
  ELSE JsonParse(SubSeq(raw, Min(IndexOf(raw, "{"), Len(raw)) + 1,
                        Min(LastIndexOf(raw, "}") + 1, Len(raw))))


\* A customerQuote the handler passes on as the reply gave it.
AsReplied(cq) ==
  IF cq.k = "obj"
  THEN [k |-> "obj", labourHours |-> cq.labourHours, labourRate |-> cq.labourRate,
        labourCost |-> Undefined, quoteNumber |-> FALSE]
  ELSE cq

\* The handlers that answer with the reply's JSON as it is.
PassingThrough == {"part_009", "part_021", "part_013", "part_014"}

\* What the handler answers once the reply has parsed to pl.
\* generate-quote.js gives options to json.materials if it is truthy and
\* labour figures to json.customerQuote if it is; ProductDropdown.jsx
\* iterates json.materials whatever it is.
QuoteResponse(v, pl, groups) ==
  IF v \in PassingThrough
  THEN Ok([k |-> "reply", materials |-> pl.materials, method |-> pl.method,
           customerQuote |-> AsReplied(pl.customerQuote)])
  ELSE IF v = "generate_quote_a"
  THEN IF Truthy(pl.materials) /\ MaterialsThrow(pl.materials)
       THEN ServerError(v, "TypeError")
       ELSE Ok(Quote(IF Truthy(pl.materials)
                     THEN WithOptions(v, pl.materials, groups) ELSE pl.materials,
                     pl.method,
                     IF Truthy(pl.customerQuote)
                     THEN FixedRateLabour(pl.customerQuote)
                     ELSE pl.customerQuote))
  ELSE IF MaterialsThrow(pl.materials)
       THEN ServerError(v, "TypeError")
       ELSE Ok(Quote(WithOptions(v, pl.materials, groups), pl.method,
                     AsReplied(pl.customerQuote)))

\* The planning call of a catalog-first handler returns: the reply is parsed
\* and the rest of the handler runs up to its response.
GenOkQuote ==
  /\ pc = "gen"
  /\ ai.purpose = "plan"
  /\ variant \in CatalogFirst
  /\ aiCalled' = TRUE
  /\ ai' = NoAi
  /\ \E raw \in RawReplies,
        mentions \in (IF variant = "ProductDropdown" THEN BOOLEAN ELSE {TRUE}) :
       LET parsed == ReplyParse(variant, raw, mentions)
           groups == IF variant \in PassingThrough THEN <<>>
                     ELSE groupProducts(variant, products)
       IN /\ rawKind' = BracesOf(raw)
          /\ IF parsed = "object"
             THEN \E pl \in PlanObjects :
                    /\ pl.materials.k # "undefined" => mentions
                    /\ plan' = pl
                    /\ Respond(QuoteResponse(variant, pl, groups))
             ELSE IF parsed = "number"
             THEN /\ plan' = PlanOfNumber
                  /\ Respond(QuoteResponse(variant, PlanOfNumber, groups))
             ELSE /\ Respond(ServerError(variant,
                               CASE parsed = "error" -> "JsonSyntaxError"
                                 [] parsed = "noObject" -> "InvalidJsonObject"
                                 [] parsed = "malformed" -> "MalformedResponse"))
                  /\ UNCHANGED plan
  /\ UNCHANGED <<aside, variant, classifyReply, req, loopVars, catCalled, bodyRead, only500>>

Next == RejectMethod \/ RejectNoBody \/ RejectDescription \/ Accept
  \/ Gen503 \/ GenError \/ GenOkProjectType \/ GenOkPlan
  \/ LoopNotIterable \/ SkipMaterial \/ StartSearch \/ SearchPrimary \/ SearchWord
  \/ MatchFuzzy \/ GenOkClassify \/ ClassifyFails \/ MatchAll \/ MatchTop \/ Assemble
  \/ AcceptSearchFirst \/ GenOkKeywords \/ KeywordsFail \/ KeywordLookup \/ GenOkQuote
Spec == Init /\ [][Next]_vars

\* ================================================== helpers on their own
\* The stop words: the set of part_021, and of generate-quote.js, which adds
\* 'by' and 'from'.
stopWords(v) ==
  { <<"a">>, <<"a","n">>, <<"t","h","e">>, <<"i","n">>, <<"o","n">>,
    <<"f","o","r">>, <<"w","i","t","h">>, <<"i">>, <<"w","a","n","t">>,
    <<"t","o">>, <<"b","u","i","l","d">>, <<"a","n","d">>, <<"i","s">>,
    <<"i","t">>, <<"w","i","l","l">>, <<"b","e">>, <<"a","r","e","a">>,
    <<"s","i","z","e">>, <<"u","s","i","n","g">>, <<"o","u","t">>,
    <<"o","f">>, <<"w","h","i","c","h">>,
    <<"c","u","r","r","e","n","t","l","y">>, <<"g","r","a","s","s">>,
    <<"m","e","t","r","e","s">>, <<"m","e","t","e","r">>,
    <<"l","o","n","g">>, <<"h","i","g","h">> }
  \cup (IF v = "generate_quote_a" THEN {<<"b","y">>, <<"f","r","o","m">>} ELSE {})

\* Array.from(new Set(seq)): every element once, at its first place.
Unique(seq) ==
  LET firstAt(i) == \A j \in 1..(i - 1) : seq[j] # seq[i]
      idx == SelectSeq([i \in 1..Len(seq) |-> i], firstAt)
  IN [n \in 1..Len(idx) |-> seq[idx[n]]]

\* The sequences of seqs one after the other.
RECURSIVE Flatten(_)
Flatten(seqs) == IF seqs = <<>> THEN <<>> ELSE Head(seqs) \o Flatten(Tail(seqs))

\* /^\d+(x\d+)?$/.test(w)
IsNumberOrSize(w) ==
  LET d == DigitsEnd(w, 1)
  IN /\ d > 1
     /\ \/ d = Len(w) + 1
        \/ /\ d <= Len(w)
           /\ w[d] = "x"
           /\ DigitsEnd(w, d + 1) > d + 1
           /\ DigitsEnd(w, d + 1) = Len(w) + 1

\* text.split(/[;,]/) from position i on, cur being the piece collected so far.
RECURSIVE SplitList(_, _, _)
SplitList(s, i, cur) ==
  IF i > Len(s) THEN <<cur>>
  ELSE IF s[i] \in {";", ","} THEN <<cur>> \o SplitList(s, i + 1, <<>>)
  ELSE SplitList(s, i + 1, Append(cur, s[i]))

\* getSearchKeywords of part_021 from the reply's text on:
\* text.trim().split(/[;,]/).map(k => k.trim().toLowerCase()).filter(Boolean)
\*   .filter(w => !stopWords.has(w) && !/^\d+(x\d+)?$/.test(w)), made unique.
getSearchKeywords(text) ==
  LET pieces == SplitList(Trim(text), 1, <<>>)
      lowered == [i \in 1..Len(pieces) |-> ToLowerCase(Trim(pieces[i]))]
      kept(w) == w # <<>> /\ w \notin stopWords("part_021") /\ ~IsNumberOrSize(w)
  IN [throws |-> FALSE, keywords |-> Unique(SelectSeq(lowered, kept))]

\* description.toLowerCase().replace(/[^\w\s]/g, '').split(/\s+/)
DescriptionWords(description) ==
  LET kept(c) == c \in WordChars \cup Spaces
  IN SplitSpaces(SelectSeq(ToLowerCase(description), kept), 1, <<>>)

\* The words that name a property every object inherits and that survive
\* toLowerCase() and the removal of [^\w\s]: synonyms[w] is truthy for them
\* (a function, Object.prototype) and has no forEach and no split.
InheritedNames == { <<"c","o","n","s","t","r","u","c","t","o","r">>,
                   <<"_","_","p","r","o","t","o","_","_">> }

\* fallbackKeywordExtractor of part_021: the words that are no stop word, no
\* number or size and longer than 2, each followed by its fallbackSynonyms.
\* fallbackSynonyms[w].forEach throws a TypeError for an inherited name.
fallbackKeywordExtractor(description) ==
  LET fallbackSynonyms(w) ==
        CASE w = <<"p","a","v","i","n","g">> ->
          <<
             <<"p","a","v","i","n","g">>, <<"s","l","a","b","s">> >>
          [] w = <<"s","t","o","n","e">> ->
          <<
             <<"s","t","o","n","e">>, <<"s","a","n","d","s","t","o","n","e">>,
             <<"l","i","m","e","s","t","o","n","e">>, <<"s","l","a","t","e">>,
             <<"g","r","a","n","i","t","e">>,
             <<"t","r","a","v","e","r","t","i","n","e">>,
             <<"q","u","a","r","t","z","i","t","e">>,
             <<"b","a","s","a","l","t">>,
             <<"y","o","r","k","s","t","o","n","e">>,
             <<"p","o","r","p","h","y","r","y">> >>
          [] w = <<"p","a","t","i","o">> ->
          <<
             <<"p","a","t","i","o">>, <<"p","a","v","i","n","g">> >>
          [] w = <<"a","g","g","r","e","g","a","t","e">> ->
          <<
             <<"a","g","g","r","e","g","a","t","e">>, <<"s","a","n","d">>,
             <<"c","e","m","e","n","t">>, <<"m","o","t">> >>
          [] w = <<"b","r","i","c","k">> ->
          <<
             <<"b","r","i","c","k">>, <<"b","l","o","c","k">>,
             <<"r","e","d"," ","b","r","i","c","k">> >>
          [] w = <<"b","l","o","c","k">> ->
          <<
             <<"b","l","o","c","k">>,
             <<"c","o","n","c","r","e","t","e"," ","b","l","o","c","k">> >>
          [] w = <<"m","o","r","t","a","r">> ->
          <<
             <<"m","o","r","t","a","r">>, <<"j","o","i","n","t","i","n","g">>,
             <<"j","o","i","n","t">>,
             <<"j","o","i","n","t","i","n","g"," ","c","o","m","p","o","u","n","d">>,
             <<"p","o","i","n","t","i","n","g"," ","c","o","m","p","o","u","n","d">>,
             <<"s","l","u","r","r","y">>, <<"p","r","i","m","e","r">>,
             <<"a","d","h","e","s","i","v","e">>,
             <<"b","o","n","d","i","n","g">>,
             <<"b","o","n","d","i","n","g"," ","a","g","e","n","t">> >>
          [] w = <<"c","e","m","e","n","t">> ->
          <<
             <<"c","e","m","e","n","t">>, <<"p","o","s","t","c","r","e","t","e">> >>
          [] w = <<"a","d","h","e","s","i","v","e">> ->
          <<
             <<"a","d","h","e","s","i","v","e">>, <<"p","r","i","m","e","r">>,
             <<"s","l","u","r","r","y"," ","p","r","i","m","e","r">>,
             <<"s","b","r">>, <<"p","v","a">>,
             <<"b","o","n","d","i","n","g"," ","a","g","e","n","t">>,
             <<"t","i","l","e"," ","a","d","h","e","s","i","v","e">> >>
          [] OTHER -> <<>>
      kept(w) == /\ w # <<>>
                 /\ w \notin stopWords("part_021")
                 /\ ~IsNumberOrSize(w)
                 /\ Len(w) > 2
      ws == SelectSeq(DescriptionWords(description), kept)
  IN [throws |-> \E i \in 1..Len(ws) : ws[i] \in InheritedNames,
      keywords |->
        Unique(Flatten([i \in 1..Len(ws) |-> <<ws[i]>> \o fallbackSynonyms(ws[i])]))]

\* extractKeywords of generate-quote.js, before the keywords are joined with
\* spaces: the words that are no stop word and longer than 2, then the
\* synonyms of each.  synonyms[w].split throws a TypeError for an inherited
\* name.
extractKeywords(text) ==
  LET synonyms(w) ==
        CASE w = <<"p","a","t","i","o">> ->
          <<
             <<"p","a","v","i","n","g">>, <<"s","t","o","n","e">>,
             <<"s","l","a","b">>, <<"f","l","a","g","s">>, <<"p","a","t","i","o">> >>
          [] w = <<"f","e","n","c","i","n","g">> ->
          <<
             <<"f","e","n","c","e">>, <<"p","a","n","e","l">>,
             <<"p","o","s","t">>, <<"t","i","m","b","e","r">>,
             <<"g","r","a","v","e","l","b","o","a","r","d">> >>
          [] w = <<"c","e","m","e","n","t">> ->
          <<
             <<"c","e","m","e","n","t">>, <<"m","o","r","t","a","r">>,
             <<"j","o","i","n","t">>, <<"f","i","l","l","e","r">>,
             <<"b","o","n","d","i","n","g">> >>
          [] w = <<"a","g","g","r","e","g","a","t","e">> ->
          <<
             <<"s","a","n","d">>, <<"g","r","a","v","e","l">>,
             <<"b","a","l","l","a","s","t">>, <<"m","o","t">>,
             <<"s","u","b","b","a","s","e">>,
             <<"s","u","b","-","b","a","s","e">>,
             <<"h","a","r","d","c","o","r","e">> >>
          [] w = <<"w","a","l","l">> ->
          <<
             <<"b","r","i","c","k","s">>, <<"b","l","o","c","k","s">>,
             <<"r","e","n","d","e","r">>, <<"p","i","e","r">>,
             <<"f","o","o","t","i","n","g">>, <<"c","o","p","i","n","g">> >>
          [] OTHER -> <<>>
      kept(w) == w \notin stopWords("generate_quote_a") /\ Len(w) > 2
      ws == SelectSeq(DescriptionWords(text), kept)
  IN [throws |-> \E i \in 1..Len(ws) : ws[i] \in InheritedNames,
      keywords |-> Unique(ws \o Flatten([i \in 1..Len(ws) |-> synonyms(ws[i])]))]

\* cleanTitle as the handler v defines it.
cleanTitleOf(v, title) ==
  IF v = "generate_quote_a" THEN cleanTitleQuote(title)
  ELSE IF v = "ProductDropdown" THEN cleanTitleDropdown(title)
  ELSE cleanTitle(title)

\* A product title, a job description or a keyword reply is handed to a
\* helper of part_018, of the first handler of generate-quote.js, of
\* ProductDropdown.jsx or of part_021.  Titles are short strings of a digit,
\* a unit letter, parentheses, a space and a dash; descriptions and replies
\* are words joined by a space, a comma or a semicolon; the texts of products
\* are a title and a description joined by a space.
InitHelpers ==
  LET titles == SeqsUpTo({"1", "m", "(", ")", " ", "-"}, MaxTitle)
      tokens == { <<"t","h","e">>, <<"p","e">>, <<"P","a","t","i","o">>,
                  <<"c","e","m","e","n","t","!">>, <<"1","2">>, <<"2","x","4">>,
                  <<"s","a","n","d">>, <<" ">>,
                  <<"c","o","n","s","t","r","u","c","t","o","r">> }
      RECURSIVE join(_, _)
      join(l, sep) == IF Len(l) <= 1 THEN Flatten(l)
                      ELSE Head(l) \o sep \o join(Tail(l), sep)
      phrases == {join(l, sep) : l \in SeqsUpTo(tokens, MaxTokens),
                                 sep \in {<<" ">>, <<",">>, <<";", " ">>}}
      texts == {join(<<title, description>>, <<" ">>) :
                  title \in { <<"u","n","d","e","f","i","n","e","d">>,
                              <<"S","l","a","t","e">>, <<"S","l","a","b">> },
                  description \in { <<"p","r","e","s","s","e","d">>,
                                    <<"c","o","n","c","r","e","t","e">>,
                                    <<"Y","o","r","k","s","t","o","n","e">>,
                                    <<"g","r","e","y">> }}
  IN /\ variant \in {"part_018", "generate_quote_a", "ProductDropdown", "part_021"}
     /\ Idle
     /\ now = 0
     /\ issued = <<>>
     /\ calc \in {[fn |-> "input", arg |-> t, out |-> <<>>, threw |-> FALSE] :
                    t \in titles \cup phrases \cup texts}

\* cleanTitle(title)
CleanTitleOnce ==
  /\ calc.fn = "input"
  /\ variant # "part_021"
  /\ calc' = [calc EXCEPT !.fn = "cleanTitle",
                          !.out = cleanTitleOf(variant, calc.arg)]
  /\ UNCHANGED <<handlerVars, now, issued>>

\* cleanTitle of a title that cleanTitle returned.
CleanTitleAgain ==
  /\ calc.fn = "cleanTitle"
  /\ calc' = [fn |-> "cleanTitleAgain", arg |-> calc.out,
              out |-> cleanTitleOf(variant, calc.out), threw |-> FALSE]
  /\ UNCHANGED <<handlerVars, now, issued>>

\* The keywords of a reply or of a description: getSearchKeywords and
\* fallbackKeywordExtractor of part_021, extractKeywords of generate-quote.js.
ExtractKeywords ==
  /\ calc.fn = "input"
  /\ \E r \in (IF variant = "part_021"
               THEN {[fn |-> "getSearchKeywords", result |-> getSearchKeywords(calc.arg)],
                     [fn |-> "fallbackKeywordExtractor",
                      result |-> fallbackKeywordExtractor(calc.arg)]}
               ELSE IF variant = "generate_quote_a"
               THEN {[fn |-> "extractKeywords", result |-> extractKeywords(calc.arg)]}
               ELSE {}) :
       calc' = [fn |-> r.fn, arg |-> calc.arg,
                out |-> IF r.result.throws THEN <<>> ELSE r.result.keywords,
                threw |-> r.result.throws]
  /\ UNCHANGED <<handlerVars, now, issued>>

\* filterByNaturalStonePreference of part_021 on one product with the text
\* calc.arg, for a job description that asks for natural stone and for one
\* that does not: out holds the product when it is kept.
FilterByNaturalStone ==
  /\ calc.fn = "input"
  /\ variant = "part_021"
  /\ \E prefers \in BOOLEAN :
       calc' = [fn |-> IF prefers THEN "filterByNaturalStonePreference"
                       ELSE "noPreference",
                arg |-> calc.arg,
                out |-> IF prefers /\ ~IsNaturalStone(ToLowerCase(calc.arg))
                        THEN <<>> ELSE <<calc.arg>>,
                threw |-> FALSE]
  /\ UNCHANGED <<handlerVars, now, issued>>

NextHelpers ==
  CleanTitleOnce \/ CleanTitleAgain \/ ExtractKeywords \/ FilterByNaturalStone
HelperSpec == InitHelpers /\ [][NextHelpers]_vars

\* ============================================ quote numbers over requests
\* The handlers that put quoteNumber: `Q-${Date.now()}` into the quote run once
\* per request, and requests run side by side: between two readings of the
\* clock by two runs no millisecond need pass.
InitNumbers ==
  /\ variant \in WithWordFallback \cup {"part_012", "generate_quote_a"}
  /\ Idle
  /\ now = 0
  /\ issued = <<>>
  /\ calc = [fn |-> "none"]

\* A millisecond passes.
Tick ==
  /\ now < MaxClock
  /\ now' = now + 1
  /\ UNCHANGED <<handlerVars, issued, calc>>

\* A run of the handler assembles its quote, reads Date.now() for the
\* quoteNumber and answers 200.
IssueQuote ==
  /\ Len(issued) < MaxResponses
  /\ issued' = Append(issued, now)
  /\ UNCHANGED <<handlerVars, now, calc>>

NextNumbers == Tick \/ IssueQuote
NumberSpec == InitNumbers /\ [][NextNumbers]_vars

\* ============================================================ the front end
\* The page keeps quote and isLoading in its state; the generate button is
\* disabled while isLoading, so one run of handleGenerateQuote is in progress
\* at a time. calc holds the page: the await the run is suspended at, the
\* state, the alerts shown, the answer of the last fetch and what the effect
\* on quote saved last.

InitFront ==
  /\ variant \in {"App", "part_005", "part_016"}
  /\ Idle
  /\ now = 0
  /\ issued = <<>>
  /\ calc = [fn |-> "page", pc |-> "idle", isLoading |-> FALSE, quote |-> NoQuote,
             saved |-> NoQuote, alerts |-> 0, runs |-> 0, described |-> FALSE,
             answer |-> [status |-> 0, body |-> "none"]]

\* handleGenerateQuote up to its await of fetch: setIsLoading(true),
\* setQuote(null), POST of the job description typed in.
HandleGenerateQuote ==
  /\ calc.pc = "idle"
  /\ calc.runs < MaxRuns
  /\ \E described \in BOOLEAN :
       calc' = [calc EXCEPT !.pc = "fetch", !.isLoading = TRUE, !.quote = NoQuote,
                            !.runs = @ + 1, !.described = described]
  /\ UNCHANGED <<handlerVars, now, issued>>

\* response.ok
ResponseOk(status) == status \in 200..299

\* The fetch settles and handleGenerateQuote runs to its end: a rejection, a
\* status that part_016 refuses and a body that is not JSON go to the catch;
\* otherwise the parsed body is stored with a customerQuote of the page's own,
\* and the effect on quote saves it. The finally block clears isLoading.
\* The fetch settles with the handler's 200 and its quote, its 400 for a
\* missing description, its 500, the platform's 504 page for a run that took
\* too long, or a rejection (status 0).
FetchSettles ==
  /\ calc.pc = "fetch"
  /\ \E a \in (IF calc.described
               THEN {[status |-> 200, body |-> "quote"], [status |-> 500, body |-> "error"]}
               ELSE {[status |-> 400, body |-> "error"]})
              \cup {[status |-> 504, body |-> "html"], [status |-> 0, body |-> "rejected"]} :
       LET thrown == \/ a.status = 0
                     \/ variant = "part_016" /\ ~ResponseOk(a.status)
                     \/ a.body = "html"
           stored == [k |-> "object", body |-> a.body, quoteNumber |-> now]
       IN calc' = [calc EXCEPT !.pc = "idle", !.isLoading = FALSE, !.answer = a,
                               !.quote = IF thrown THEN calc.quote ELSE stored,
                               !.saved = IF thrown THEN calc.saved ELSE stored,
                               !.alerts = IF thrown THEN @ + 1 ELSE @]
  /\ UNCHANGED <<handlerVars, now, issued>>

NextFront == Tick \/ HandleGenerateQuote \/ FetchSettles
FrontSpec == InitFront /\ [][NextFront]_vars

\* ================================================================== claims
\* The materials of a 200 response to which the handler gave options.
ResponseMaterials ==
  IF resp.status = 200 /\ resp.quote.k = "quote" /\ resp.quote.materials.k = "array"
  THEN resp.quote.materials.items
  ELSE <<>>

\* Whether an option's id is that of a manual placeholder.
IsManualId(id) == Len(id) >= 7 /\ SubSeq(id, 1, 7) = <<"m","a","n","u","a","l","-">>

\* The requirements of the plan whose trimmed name is not empty.
NamedRequirements ==
  LET named(mat) == MaterialName[mat] # <<>>
  IN SelectSeq(MaterialsList(plan), named)

\* C1: in a 200 response every material requirement of the plan with a
\* non-empty trimmed name has its material, and every material has an options
\* list of at least one entry, whatever the search and the disambiguation
\* call returned.
C1_OptionsNeverEmpty ==
  resp.status = 200 /\ resp.quote.k = "quote" /\ resp.quote.materials.k = "array"
  => /\ Len(ResponseMaterials) >= Len(NamedRequirements)
     /\ \A i \in 1..Len(ResponseMaterials) : Len(ResponseMaterials[i].options) >= 1

\* C2: when the search has found no product for a material (the primary
\* query and the word-by-word fallback both empty), the handler does not
\* fail: it resolves the material with exactly one option, whose id starts
\* with manual-, and goes on towards its 200 response.
C2_NoProductsManualOnly ==
  [][/\ variant \in WithWordFallback
     /\ pc = "match"
     /\ products = <<>>
     => /\ pc' = "loop"
        /\ Len(finalMaterials') = Len(finalMaterials) + 1
        /\ Len(finalMaterials'[Len(finalMaterials')].options) = 1
        /\ IsManualId(finalMaterials'[Len(finalMaterials')].options[1].id)]_vars

\* C3: in every resolved material of a 200 response the manual placeholder
\* (id prefixed manual-) is present and is the first option, also when
\* catalog candidates were accepted.
C3_PlaceholderFirst ==
  \A i \in 1..Len(ResponseMaterials) :
    /\ ResponseMaterials[i].options # <<>>
    /\ IsManualId(ResponseMaterials[i].options[1].id)

\* C4: in every 200 response whose customerQuote carries a labourCost, it
\* equals labourHours * labourRate of that customerQuote, for every value of
\* the two the plan can supply, zero and a missing value included.
C4_LabourCostIsProduct ==
  /\ resp.status = 200
  /\ resp.quote.k = "quote"
  /\ resp.quote.customerQuote.k = "obj"
  /\ resp.quote.customerQuote.quoteNumber
  => JsNumEq(resp.quote.customerQuote.labourCost,
             JsMul(resp.quote.customerQuote.labourHours,
                   resp.quote.customerQuote.labourRate))

\* C5: a POST whose body has no jobDescription, or an empty one, is answered
\* 400 at once, with no call to the text-generation service and none to the
\* catalog.
C5_MissingDescriptionIs400 ==
  req.method = "POST" /\ req.body \in {"noDescription", "emptyDescription"}
  => /\ pc = "done"
     /\ resp.status = 400
     /\ ~aiCalled
     /\ ~catCalled

\* A POST with an empty jobDescription has been answered 400.
C5_Witness ==
  /\ req = [method |-> "POST", body |-> "emptyDescription"]
  /\ pc = "done"
  /\ resp.status = 400

\* C6: a request whose method is not POST is answered 405 and nothing else is
\* done: the body is not read, no outbound call is made.
C6_NotPostIs405 ==
  req.method # "POST"
  => /\ pc = "done"
     /\ resp.status = 405
     /\ ~bodyRead
     /\ ~aiCalled
     /\ ~catCalled

\* A GET that carries a job description has been answered 405.
C6_Witness ==
  /\ req = [method |-> "GET", body |-> "description"]
  /\ pc = "done"
  /\ resp.status = 405

\* C7: every failure response is a structured object with an error and a
\* details member; its status is 400 or 405 when the request is at fault (its
\* method, its body) and 500 otherwise.
C7_FailuresAreStructured ==
  resp.status \notin {0, 200}
  => /\ resp.kind = "json"
     /\ resp.hasError
     /\ resp.hasDetails
     /\ IF ~Accepted(req)
        THEN resp.status \in {400, 405}
        ELSE resp.status = 500

\* The messages of an error that refers to invalid JSON or a malformed reply.
InvalidJsonMessages == {"JsonSyntaxError", "InvalidJsonObject", "MalformedResponse"}

\* C8: when the plan reply holds no "{" or no "}", the endpoint answers 500
\* with an error that refers to invalid JSON, and with no Quote.
C8_NoBracesIs500 ==
  rawKind \in {"none", "open", "close"}
  => /\ pc = "done"
     /\ resp.status = 500
     /\ resp.message \in InvalidJsonMessages
     /\ resp.quote = NoQuote

\* Failures that have nothing to do with what the catalog answered.
CatalogIndependentFailures ==
  {"ApiKeyMissing", "UpstreamError", "Upstream503", "TypeError"}
  \cup InvalidJsonMessages

\* C9: when the catalog has answered HTTP 500 to every lookup of a request,
\* the search has returned an empty array instead of throwing and the
\* request, unless it fails for a reason of its own, is answered 200.
C9_Catalog500StillQuotes ==
  only500 /\ catCalled /\ pc = "done"
  => resp.status = 200 \/ resp.message \in CatalogIndependentFailures

\* C10: in the per-keyword search a lookup that fails (network error, non-2xx
\* status, body that is no JSON) does not abort the search: the failure is
\* not the request's, and once the search is over every keyword has been
\* looked up.
C10_KeywordFailureSkipped ==
  variant \in PerKeyword
  => /\ resp.message \notin {"NetworkError", "CatalogStatusError", "CatalogJsonError"}
     /\ (pc \notin {"idle", "kwSearch"} /\ ai.purpose # "keywords" => words = <<>>)

\* C11: a text-generation call that keeps failing with status 503 is answered
\* with a 500 only after the retries on the primary model and on the fallback
\* model are used up, four calls of each, and never after a single call.
C11_OverloadSurfacedAfterRetries ==
  (pc = "done" /\ resp.status = 500 /\ resp.message = "Upstream503")
    => (ai.model = "fallback" /\ ai.calls = 2 * (MaxRetriesDefault + 1))

\* 2 to the power n.
RECURSIVE Pow2(_)
Pow2(n) == IF n = 0 THEN 1 ELSE 2 * Pow2(n - 1)

\* C12: generateWithRetry calls the model at most maxRetries + 1 times (the
\* call in flight is call number attempt + 1 and every earlier one failed
\* with 503), has waited 1000 ms before the first retry and twice the
\* previous wait before each later one, and its first successful call ends
\* it: a call that succeeds is never followed by another call of the same
\* generateWithRetry.
C12_RetryBoundedWithBackoff ==
  (variant \in WithRetry /\ pc = "gen")
    => /\ ai.attempt \in 0..MaxRetriesDefault
       /\ ai.calls = ai.attempt
                      + (IF ai.model = "fallback" THEN MaxRetriesDefault + 1 ELSE 0)
       /\ ai.delay = InitialDelay * Pow2(ai.attempt)
       /\ ai.waited = (IF ai.attempt = 0 THEN 0
                       ELSE InitialDelay * Pow2(ai.attempt - 1))

\* The fallback model is on its last call after three waits of 1, 2 and 4 s.
C12_Witness ==
  /\ variant \in WithRetry
  /\ pc = "gen"
  /\ ai.model = "fallback"
  /\ ai.attempt = MaxRetriesDefault
  /\ ai.waited = 4000

\* C13: cleanTitle is idempotent: a title that cleanTitle returned is left as
\* it is by cleanTitle.
C13_CleanTitleIdempotent ==
  calc.fn = "cleanTitleAgain" => calc.out = calc.arg

\* C14: every keyword an extractor returns, on the heuristic path, on the
\* AI-assisted path and among the synonyms added, is longer than 2 characters
\* and is no stop word.
C14_KeywordsLongAndNoStopWords ==
  calc.fn \in {"getSearchKeywords", "fallbackKeywordExtractor", "extractKeywords"}
    => \A i \in 1..Len(calc.out) :
         Len(calc.out[i]) > 2 /\ calc.out[i] \notin stopWords(variant)

\* C15: keyword extraction never throws: a request never fails because the
\* keyword call failed or its reply held no keyword; the handler goes on to
\* the catalog search with the heuristic's keywords.
C15_KeywordExtractionNeverThrows ==
  (pc = "done" /\ resp.status = 500)
    => /\ ai.purpose # "keywords"
       /\ resp.message \notin {"KeywordTypeError", "KeywordJsonError"}

\* C16: quoteNumber is unique per generation: no two 200 responses carry the
\* same quoteNumber.
C16_QuoteNumbersUnique ==
  \A i, j \in 1..Len(issued) : i # j => issued[i] # issued[j]

\* C17: the materials of a 200 response are exactly the plan's requirements
\* that have a non-empty trimmed name, in the plan's order and under that
\* name, each with options; a requirement with an empty or missing name is
\* skipped and does not make the request fail.
C17_NamedRequirementsResolved ==
  /\ (resp.status = 200 /\ resp.quote.k = "quote" /\ plan.materials.k = "array")
       => /\ resp.quote.materials.k = "array"
          /\ Len(ResponseMaterials) = Len(NamedRequirements)
          /\ \A i \in 1..Len(ResponseMaterials) :
               /\ ResponseMaterials[i].name = Str(MaterialName[NamedRequirements[i]])
               /\ ResponseMaterials[i].quantity = NamedRequirements[i].quantity
  /\ (/\ pc = "done"
      /\ resp.status = 500
      /\ resp.message = "TypeError"
      /\ plan.materials.k = "array"
      /\ matIdx \in 1..Len(MaterialsList(plan)))
       => MaterialName[CurrentMaterial] # <<>>

\* The materials array of a 200 response, assembled or passed through.
AnsweredMaterials ==
  IF resp.status = 200 /\ resp.quote.materials.k = "array"
  THEN resp.quote.materials.items
  ELSE <<>>

\* C18: every material of a 200 response has a quantity that is a number and
\* not negative, also when the plan's quantity was negative, missing or no
\* number.
C18_QuantitiesNonNegative ==
  \A i \in 1..Len(AnsweredMaterials) :
    AnsweredMaterials[i].quantity.k = "num" /\ AnsweredMaterials[i].quantity.v >= 0

\* C19: in every 200 response, whatever object the plan reply held, materials
\* is an array, method has a steps and a considerations array, and
\* labourHours is a number.
C19_ResponseShapeDefaulted ==
  resp.status = 200
    => /\ resp.quote.materials.k = "array"
       /\ resp.quote.method.k = "obj"
       /\ resp.quote.method.steps
       /\ resp.quote.method.considerations
       /\ resp.quote.customerQuote.k = "obj"
       /\ resp.quote.customerQuote.labourHours.k = "num"

\* C20: no catalog product whose similarity score against the cleaned
\* material name is below the handler's confidence threshold is among the
\* options of a material of a 200 response.
C20_NoOptionBelowThreshold ==
  (variant \in WithWordFallback /\ Len(ResponseMaterials) = Len(NamedRequirements))
    => \A i \in 1..Len(ResponseMaterials) :
         \A n \in 1..Len(ResponseMaterials[i].options) :
           LET option == ResponseMaterials[i].options[n]
           IN IsManualId(option.id)
              \/ \A p \in CatalogProducts :
                   p.id = option.id
                     => RatingGeq(Rating[variant, NamedRequirements[i], p],
                                  Threshold(variant))

\* C21: after the manual placeholder the catalog options of a material are
\* listed in non-increasing order of their similarity score against the
\* material's query, whichever path chose them.
C21_OptionsBestScoreFirst ==
  (variant \in WithWordFallback /\ Len(ResponseMaterials) = Len(NamedRequirements))
    => \A i \in 1..Len(ResponseMaterials) :
         LET options == ResponseMaterials[i].options
         IN \A n, m \in 1..Len(options) :
              (n < m /\ ~IsManualId(options[n].id) /\ ~IsManualId(options[m].id))
                => \A p, r \in CatalogProducts :
                     (p.id = options[n].id /\ r.id = options[m].id)
                       => RatingGeq(Rating[variant, NamedRequirements[i], p],
                                    Rating[variant, NamedRequirements[i], r])

\* C22: when the reply of the disambiguation call cannot be parsed as a JSON
\* array of ids, the material is resolved without error and its catalog
\* options are the 3 best scored candidates.
C22_ParseFailureTopN ==
  [][(/\ pc = "gen"
      /\ ai.purpose = "classify"
      /\ ai' = NoAi
      /\ classifyReply'.kind \in {"unparsable", "notArray"})
     => /\ pc' = "loop"
        /\ Len(finalMaterials') = Len(finalMaterials) + 1
        /\ Tail(finalMaterials'[Len(finalMaterials')].options)
             = OptionsOf(FirstN(ProductsOf(Scored(variant, CurrentMaterial, products)),
                                TopN))]_vars

\* C23: the list the per-keyword (or word-by-word) catalog search returns
\* holds no two products with the same identifier (the URL in part_021 and
\* part_013, the id in part_018), and every product a successful lookup
\* returned is in it exactly once.
C23_SearchResultDeduplicated ==
  [][LET key == IF variant \in PerKeyword THEN "url" ELSE "id"
         returned == /\ words # <<>>
                     /\ words' = <<>>
                     /\ \/ pc = "wordSearch" /\ pc' = "match"
                        \/ /\ pc = "kwSearch"
                           /\ pc' = "gen"
                           /\ variant \in PerKeyword
                           /\ ~prefersNatural
     IN returned
        => /\ \A i, j \in 1..Len(products') :
                i # j => products'[i][key] # products'[j][key]
           /\ \A n \in 1..Len(all') : \E i \in 1..Len(products') : products'[i] = all'[n]
           /\ \A i \in 1..Len(products') : \E n \in 1..Len(all') : all'[n] = products'[i]]_vars

\* A search of two lookups that both found product 1 has returned.
C23_Witness ==
  /\ words = <<>>
  /\ pc \in {"match", "gen"}
  /\ \E i, j \in 1..Len(all) : i # j /\ all[i] = all[j]
  /\ Len(products) >= 2

\* C24: for a job description that asks for natural stone the post-filter
\* drops a product only if its text matches a disqualifying term (concrete,
\* utility, pressed) and no qualifying natural-stone term; a product that
\* matches a term of both kinds is kept.
C24_DropsOnlyDisqualified ==
  LET text == ToLowerCase(calc.arg)
      qualifies ==
        \E term \in { <<"s","a","n","d","s","t","o","n","e">>,
                      <<"l","i","m","e","s","t","o","n","e">>,
                      <<"s","l","a","t","e">>, <<"g","r","a","n","i","t","e">>,
                      <<"t","r","a","v","e","r","t","i","n","e">>,
                      <<"y","o","r","k","s","t","o","n","e">>,
                      <<"p","o","r","p","h","y","r","y">>,
                      <<"s","t","o","n","e">> } : Includes(text, term)
      disqualified ==
        \E word \in { <<"c","o","n","c","r","e","t","e">>,
                      <<"u","t","i","l","i","t","y">>,
                      <<"p","r","e","s","s","e","d">> } : Includes(text, word)
  IN calc.fn = "filterByNaturalStonePreference"
     => (calc.out = <<>> => (disqualified /\ ~qualifies))

\* C25: a failure of the model whose status is not 503 is thrown at once by
\* generateWithRetry, with no wait and no further attempt, and
\* callWithFallback does not call the fallback model for it: the handler's
\* catch block answers 500.
C25_OtherFailureThrownAtOnce ==
  [][(/\ variant \in WithRetry
      /\ pc = "gen"
      /\ ai'.calls = ai.calls + 1
      /\ ai'.failed # 503)
     => /\ pc' = "done"
        /\ resp'.status = 500
        /\ resp'.message = "UpstreamError"
        /\ ai'.attempt = ai.attempt
        /\ ai'.waited = ai.waited
        /\ ai'.delay = ai.delay
        /\ ai'.model = ai.model]_vars

\* The primary model failed twice with 503 and then with another status:
\* the request is answered 500 after three calls, none of the fallback model.
C25_Witness ==
  /\ variant \in WithRetry
  /\ pc = "done"
  /\ ai.failed = 500
  /\ ai.model = "primary"
  /\ ai.attempt = 2
  /\ ai.calls = 3

\* C26: callWithFallback calls the fallback model only after the primary
\* model has failed with 503 on every one of its attempts (the 3 retried
\* ones and the last one); after a primary attempt that succeeds the fallback
\* model is not called for that prompt.
C26_FallbackOnlyAfterPrimary503s ==
  [][/\ (ai'.model = "fallback" /\ ai.model = "primary")
         => (/\ variant \in WithRetry
             /\ pc = "gen"
             /\ ai.attempt = MaxRetriesDefault
             /\ ai.calls = MaxRetriesDefault
             /\ ai.failed = 503
             /\ ai'.failed = 503
             /\ ai'.purpose = ai.purpose
             /\ ai'.calls = MaxRetriesDefault + 1)
     /\ (pc = "gen" /\ ai.model = "primary" /\ ai.attempt > 0)
         => (ai.failed = 503 /\ ai.calls = ai.attempt)
     /\ (pc = "gen" /\ ai.model = "primary" /\ ai'.failed = 0)
         => ai'.model = "primary"]_vars

\* The fallback model is being called for the plan.
C26_Witness ==
  /\ variant \in WithRetry
  /\ pc = "gen"
  /\ ai.model = "fallback"
  /\ ai.purpose = "plan"
  /\ ai.calls = MaxRetriesDefault + 1
  /\ ai.failed = 503

\* C27: the options list of a material never holds two entries with the same
\* id, also when two products the catalog returned for the material have the
\* same cleaned title.
C27_OptionIdsDistinct ==
  variant \in TwoCall
    => \A m \in 1..Len(finalMaterials) :
         LET options == finalMaterials[m].options
         IN \A i, j \in 1..Len(options) : i # j => options[i].id # options[j].id

\* C28: every option of a material other than the manual placeholder is the
\* projection (id and cleaned title) of a product the catalog search returned
\* for that material; an id of the disambiguation reply that is the id of no
\* candidate never becomes an option.
C28_OptionsAreCandidates ==
  [][(/\ variant \in TwoCall
      /\ pc \in {"match", "gen"}
      /\ Len(finalMaterials') = Len(finalMaterials) + 1)
     => LET options == finalMaterials'[Len(finalMaterials')].options
        IN \A n \in 1..Len(options) :
             \/ IsManualId(options[n].id)
             \/ \E i \in 1..Len(products) :
                  /\ options[n].id = products[i].id
                  /\ options[n].name = cleanTitle(products[i].name)]_vars

\* The disambiguation reply named product 2 twice and the unknown id 9, and
\* a material was resolved with the placeholder and one product.
C28_Witness ==
  /\ classifyReply = [kind |-> "array", ids |-> << <<"2">>, <<"2">>, <<"9">> >>]
  /\ pc = "loop"
  /\ finalMaterials # <<>>
  /\ LET options == finalMaterials[Len(finalMaterials)].options
     IN Len(options) = 2 /\ options[2].id = <<"2">>

\* One step of a two-call handler keeps the order of its outbound calls.
CallsOrderedStep ==
  variant \in TwoCall
  => /\ ((ai'.purpose = "plan" /\ ai.purpose # "plan")
         => (pc = "gen" /\ ai.purpose = "projectType"))
     /\ ((catCalled' /\ ~catCalled)
         => (pc \in {"search", "wordSearch"}
             /\ aiCalled
             /\ rawKind \in {"both", "open", "close", "none"}
             /\ plan.materials.k = "array"
             /\ ai.purpose \notin {"projectType", "plan"}))
     /\ (ai'.purpose \in {"projectType", "plan"} => ~(catCalled'))

\* C29: the outbound calls of a two-call handler are ordered: the project
\* type is asked for first, the plan is asked for when the project type has
\* returned, and the catalog is fetched only in the loop over the materials
\* of a plan that was generated and parsed; while either generation call is
\* in progress, and after it has failed, no catalog request has been issued.
C29_CallsOrdered == [][CallsOrderedStep]_vars

\* A two-call handler has searched the catalog for a material of its plan.
C29_Witness ==
  /\ variant \in TwoCall
  /\ pc = "match"
  /\ catCalled
  /\ aiCalled
  /\ rawKind = "both"
  /\ matIdx = 2

\* C30: when a run of handleGenerateQuote has completed, the page's quote is
\* non-null only if the API answered that run with a 2xx status: the body of
\* a 4xx or 5xx answer is never stored as the quote.
C30_QuoteOnlyFromSuccess ==
  (calc.fn = "page" /\ calc.pc = "idle" /\ calc.runs > 0 /\ calc.quote # NoQuote)
  => ResponseOk(calc.answer.status)
====
